---- MODULE Spec2Model ----
(***************************************************************************)
(* Catan Chambers: the tournament database (tournaments, games,            *)
(* game_scores, tournament_player_stats, player_stats), the stats trigger  *)
(* update_tournament_player_stats, the record-game form handler, the       *)
(* delete-game and create-tournament endpoints, and the Leaderboard's      *)
(* calculateLoseChance.                                                    *)
(***************************************************************************)
EXTENDS Integers, Sequences, FiniteSets, TLC

\* ------------------------------------------------------------------ bounds
MaxGames == 2      \* game rows ever inserted (ids 1 .. MaxGames)
TargetGames == 2   \* total_games of the active tournament
RaceTarget == 1    \* total_games of the active tournament when two clients submit
MaxTournaments == 4 \* tournament rows ever inserted (ids 1 .. MaxTournaments)
MaxRiskPlayers == 4 \* players of a Leaderboard snapshot
MaxFormPoints == 10 \* points the increase button is pressed up to
MaxStatsPlayers == 2 \* players of a StatsPage snapshot
MaxStatsGames == 2 \* games of a StatsPage snapshot
MaxSeasonGames == 2 \* games of one season in a comparison snapshot
MaxFetches == 2 \* Leaderboard fetches in flight

\* ------------------------------------------------------- program constants
WinThreshold == 10
DefaultTotalGames == 20
DefaultPrizePool == 10000

Players == {1, 2}
GameIds == 1 .. MaxGames
GameNumbers == {1, 2}
Clients == {1, 2}
NullId == 0
PointChoices == {WinThreshold - 1, WinThreshold}
AchievementChoices == {<<1, 2>>}
Passwords == {"admin", "wrong", ""}
Requests == {1, 2}
\* a name is a sequence of tokens; the token " " is white space
NameChoices == {<< >>, <<" ">>, <<"Catan 2.0">>, <<"Catan 3.0">>, <<"Catan 3.0", " ">>}
TotalGamesChoices == {0, TargetGames}
\* Leaderboard snapshots: total_points and wins of a stats row, games played, target
RiskRows == {[total_points |-> 10, wins |-> 0], [total_points |-> 10, wins |-> 1],
             [total_points |-> 40, wins |-> 1], [total_points |-> 45, wins |-> 1]}
RiskGamesChoices == {0, 1, 5, 8, DefaultTotalGames, DefaultTotalGames + 1}
RiskTargetChoices == {DefaultTotalGames}
\* the game numbers of a season in a comparison snapshot
SeasonGameNumbers == 1 .. (MaxSeasonGames + 1)
\* the points of the score rows of a StatsPage snapshot
StatsPointChoices == {2, WinThreshold}

VARIABLES
  tournaments,              \* table tournaments: id -> row
  games,                    \* table games: set of rows
  game_scores,              \* table game_scores: set of rows
  tournament_player_stats,  \* table: <<tournament_id, player_id>> -> row
  player_stats,             \* table: player_id -> row
  nextGameId,               \* next fresh games.id
  ctxTournaments,           \* per client: the tournament list of the context
  pc,                       \* per client: position in handleSubmit
  form,                     \* per client: the form state captured by handleSubmit
  gameData,                 \* per client: id of the game row the submission inserted
  delPc,                    \* delete-game request: position in POST
  delGameId,                \* delete-game request: gameId of the body
  ctPc,                     \* per create-tournament request: position in POST
  ctBody,                   \* per create-tournament request: the request body
  ctTournament,             \* per create-tournament request: id of the inserted row
  response,                 \* the toast / HTTP response of the handler that ended last
  lbPlayers,                \* Leaderboard data.players: player ids in name order
  lbStats,                  \* Leaderboard data.stats: player id -> stats row
  lbTotalGames,             \* Leaderboard data.totalGames
  lbTarget,                 \* selectedTournament.total_games
  lbRisk,                   \* the rendered lose chance per player
  lbCall,                   \* a call of calculateLoseChance outside the player list
  formScores,               \* per client: the scores state of GameEntryForm
  showGameForm,             \* per client: the form dialog is open
  stPlayers,                \* StatsPage players: player ids in name order
  stGames,                  \* StatsPage games: the tournament's games by game_number
  stGameScores,             \* StatsPage gameScores: the score rows of these games
  stLoading,                \* StatsPage loading
  stTop,                    \* the rendered "time at top" table
  stBottom,                 \* the rendered "time at bottom" table
  activeTab,                \* page: the tab whose component is mounted
  selectedTournament,       \* context: the selected tournament
  lbFetches,                \* Leaderboard: the fetchData calls in flight, oldest first
  lbPending,                \* the tables as they were at the last change notification
  lbComparison,             \* Leaderboard comparisonData
  anLoading,                \* Analytics loading (nothing fetched yet)
  anGames,                  \* Analytics games
  anGameScores,             \* Analytics gameScores
  anSelectedGame,           \* Analytics selectedGame
  anComparison,             \* Analytics comparisonData
  anPreviousTournament,     \* Analytics previousTournament
  anProgress,               \* Analytics progressData
  anSeries                  \* the last progression chart data built for one player

dbVars == <<tournaments, games, game_scores, tournament_player_stats, player_stats, nextGameId>>
clientVars == <<ctxTournaments, pc, form, gameData>>
deleteVars == <<delPc, delGameId>>
createVars == <<ctPc, ctBody, ctTournament>>
riskVars == <<lbPlayers, lbStats, lbTotalGames, lbTarget, lbRisk, lbCall>>
formVars == <<formScores, showGameForm>>
statsVars == <<stPlayers, stGames, stGameScores, stLoading, stTop, stBottom>>
mountVars == <<activeTab, selectedTournament, lbFetches, lbComparison>>
liveVars == <<mountVars, lbPending>>
analyticsVars == <<anLoading, anGames, anGameScores, anSelectedGame, anComparison,
                   anPreviousTournament, anProgress, anSeries>>
vars == <<dbVars, clientVars, deleteVars, createVars, response, riskVars, formVars, statsVars,
          liveVars, analyticsVars>>

\* ------------------------------------------------------------ SQL helpers
\* v = w in SQL: NULL on either side is not true
SqlEq(a, b) == a # NullId /\ b # NullId /\ a = b

Greatest(a, b) == IF a >= b THEN a ELSE b

B2I(b) == IF b THEN 1 ELSE 0

\* SELECT tournament_id FROM games WHERE id = gid (NULL when there is no row)
GameTournament(gms, gid) ==
  IF \E g \in gms : g.id = gid
  THEN (CHOOSE g \in gms : g.id = gid).tournament_id
  ELSE NullId

\* SELECT winner_id FROM games WHERE id = gid
GameWinner(gms, gid) ==
  IF \E g \in gms : g.id = gid
  THEN (CHOOSE g \in gms : g.id = gid).winner_id
  ELSE NullId

ZeroStats ==
  [total_games |-> 0, wins |-> 0, total_points |-> 0, longest_road_count |-> 0,
   largest_army_count |-> 0, win_streak |-> 0, best_win_streak |-> 0]

ZeroGlobalStats ==
  [total_games |-> 0, wins |-> 0, total_points |-> 0, longest_road_count |-> 0,
   largest_army_count |-> 0]

\* -------------------------------------- trigger update_tournament_player_stats
\* the insert branch leaving best_win_streak as it was
TriggerInsertTournament_BestKept(tps, gms, new) ==
  LET v_tournament_id == GameTournament(gms, new.game_id)
      won == SqlEq(GameWinner(gms, new.game_id), new.player_id)
      key == <<v_tournament_id, new.player_id>>
  IN IF v_tournament_id = NullId \/ key \notin DOMAIN tps THEN tps
     ELSE [tps EXCEPT ![key].total_games = @ + 1,
                      ![key].wins = @ + B2I(won),
                      ![key].total_points = @ + new.points,
                      ![key].win_streak = IF won THEN @ + 1 ELSE 0]

\* TG_OP = 'INSERT' on tournament_player_stats: INSERT ... ON CONFLICT DO UPDATE
TriggerInsertTournament(tps, gms, new) ==
  LET v_tournament_id == GameTournament(gms, new.game_id)
      v_winner_id == GameWinner(gms, new.game_id)
      won == SqlEq(v_winner_id, new.player_id)
      key == <<v_tournament_id, new.player_id>>
  IN IF v_tournament_id = NullId THEN tps
     ELSE IF key \notin DOMAIN tps
     THEN tps @@ (key :>
            [total_games |-> 1,
             wins |-> B2I(won),
             total_points |-> new.points,
             longest_road_count |-> B2I(new.longest_road),
             largest_army_count |-> B2I(new.largest_army),
             win_streak |-> B2I(won),
             best_win_streak |-> B2I(won)])
     ELSE [tps EXCEPT ![key] =
            [total_games |-> @.total_games + 1,
             wins |-> @.wins + B2I(won),
             total_points |-> @.total_points + new.points,
             longest_road_count |-> @.longest_road_count + B2I(new.longest_road),
             largest_army_count |-> @.largest_army_count + B2I(new.largest_army),
             win_streak |-> IF won THEN @.win_streak + 1 ELSE 0,
             best_win_streak |-> Greatest(@.best_win_streak,
                                   IF won THEN @.win_streak + 1 ELSE @.best_win_streak)]]

\* TG_OP = 'INSERT' on player_stats: UPDATE ... WHERE player_id = NEW.player_id
TriggerInsertGlobal(ps, gms, new) ==
  LET v_tournament_id == GameTournament(gms, new.game_id)
      v_winner_id == GameWinner(gms, new.game_id)
      won == SqlEq(v_winner_id, new.player_id)
  IN IF v_tournament_id = NullId \/ new.player_id \notin DOMAIN ps THEN ps
     ELSE [ps EXCEPT ![new.player_id] =
            [total_games |-> @.total_games + 1,
             wins |-> @.wins + B2I(won),
             total_points |-> @.total_points + new.points,
             longest_road_count |-> @.longest_road_count + B2I(new.longest_road),
             largest_army_count |-> @.largest_army_count + B2I(new.largest_army)]]

\* TG_OP = 'DELETE': v_winner_id is never assigned in this branch and stays NULL
DeleteBranchWinner(gms, old) == NullId

\* the delete branch without its total_points assignment
TriggerDeleteTournament_KeepPoints(tps, gms, old) ==
  LET v_tournament_id == GameTournament(gms, old.game_id)
      key == <<v_tournament_id, old.player_id>>
  IN IF v_tournament_id = NullId \/ key \notin DOMAIN tps THEN tps
     ELSE [tps EXCEPT ![key].total_games = Greatest(0, @ - 1),
                      ![key].longest_road_count = Greatest(0, @ - B2I(old.longest_road)),
                      ![key].largest_army_count = Greatest(0, @ - B2I(old.largest_army))]

TriggerDeleteTournament(tps, gms, old) ==
  LET v_tournament_id == GameTournament(gms, old.game_id)
      v_winner_id == DeleteBranchWinner(gms, old)
      won == SqlEq(v_winner_id, old.player_id)
      key == <<v_tournament_id, old.player_id>>
  IN IF v_tournament_id = NullId \/ key \notin DOMAIN tps THEN tps
     ELSE [tps EXCEPT ![key] =
            [total_games |-> Greatest(0, @.total_games - 1),
             wins |-> Greatest(0, @.wins - B2I(won)),
             total_points |-> Greatest(0, @.total_points - old.points),
             longest_road_count |-> Greatest(0, @.longest_road_count - B2I(old.longest_road)),
             largest_army_count |-> Greatest(0, @.largest_army_count - B2I(old.largest_army)),
             win_streak |-> @.win_streak,
             best_win_streak |-> @.best_win_streak]]

TriggerDeleteGlobal(ps, gms, old) ==
  LET v_tournament_id == GameTournament(gms, old.game_id)
      v_winner_id == DeleteBranchWinner(gms, old)
      won == SqlEq(v_winner_id, old.player_id)
  IN IF v_tournament_id = NullId \/ old.player_id \notin DOMAIN ps THEN ps
     ELSE [ps EXCEPT ![old.player_id] =
            [total_games |-> Greatest(0, @.total_games - 1),
             wins |-> Greatest(0, @.wins - B2I(won)),
             total_points |-> Greatest(0, @.total_points - old.points),
             longest_road_count |-> Greatest(0, @.longest_road_count - B2I(old.longest_road)),
             largest_army_count |-> Greatest(0, @.largest_army_count - B2I(old.largest_army))]]

\* the insert branch updating the player's rows of every tournament
InsertRowsTournament_EveryTournament(tps, gms, rows) ==
  [k \in DOMAIN tps |->
     IF \E r \in rows : r.player_id = k[2]
     THEN [tps[k] EXCEPT !.total_games = @ + 1]
     ELSE tps[k]]

\* FOR EACH ROW: the trigger runs once per inserted / deleted score row
RECURSIVE InsertRowsTournament(_, _, _)
InsertRowsTournament(tps, gms, rows) ==
  IF rows = {} THEN tps
  ELSE LET r == CHOOSE x \in rows : TRUE
       IN InsertRowsTournament(TriggerInsertTournament(tps, gms, r), gms, rows \ {r})

RECURSIVE InsertRowsGlobal(_, _, _)
InsertRowsGlobal(ps, gms, rows) ==
  IF rows = {} THEN ps
  ELSE LET r == CHOOSE x \in rows : TRUE
       IN InsertRowsGlobal(TriggerInsertGlobal(ps, gms, r), gms, rows \ {r})

RECURSIVE DeleteRowsTournament(_, _, _)
DeleteRowsTournament(tps, gms, rows) ==
  IF rows = {} THEN tps
  ELSE LET r == CHOOSE x \in rows : TRUE
       IN DeleteRowsTournament(TriggerDeleteTournament(tps, gms, r), gms, rows \ {r})

RECURSIVE DeleteRowsGlobal(_, _, _)
DeleteRowsGlobal(ps, gms, rows) ==
  IF rows = {} THEN ps
  ELSE LET r == CHOOSE x \in rows : TRUE
       IN DeleteRowsGlobal(TriggerDeleteGlobal(ps, gms, r), gms, rows \ {r})

\* ------------------------------------------------------- tournament context
NoTournament == [id |-> NullId]

\* ------------------------------------------------------------ change notifications
\* the tables whose change notifications the Leaderboard subscribes to
WatchedTables == <<games, game_scores, tournament_player_stats>>

\* the subscriptions exist once the effect has run with a selected tournament
Subscribed == activeTab = "leaderboard" /\ selectedTournament # NoTournament

\* a statement that changed rows of a watched table notifies the subscribed Leaderboard;
\* notifications whose handlers have not run yet are handled together
Notified == lbPending' = (lbPending \/ (Subscribed /\ WatchedTables' # WatchedTables))

\* .from('tournaments').select('*').order('created_at', { ascending: false })
RECURSIVE OrderByCreatedDesc(_)
OrderByCreatedDesc(rows) ==
  IF rows = {} THEN << >>
  ELSE LET r == CHOOSE x \in rows : \A y \in rows : y.created_at <= x.created_at
       IN <<r>> \o OrderByCreatedDesc(rows \ {r})

FetchTournaments(tbl) == OrderByCreatedDesc({tbl[i] : i \in DOMAIN tbl})

\* tournaments.find(t => t.status === 'active') || null
ActiveTournament(list) ==
  IF \E i \in 1 .. Len(list) : list[i].status = "active"
  THEN list[CHOOSE i \in 1 .. Len(list) :
              /\ list[i].status = "active"
              /\ \A j \in 1 .. (i - 1) : list[j].status # "active"]
  ELSE NoTournament

\* fetchTournaments, run on mount and on every change notification of tournaments:
\* setTournaments(tournamentsData)
RefreshTournaments(c) ==
  /\ ctxTournaments' = [ctxTournaments EXCEPT ![c] = FetchTournaments(tournaments)]
  /\ UNCHANGED <<dbVars, pc, form, gameData, deleteVars, createVars, response, riskVars,
                 statsVars, liveVars, analyticsVars, formVars>>

\* ------------------------------------------------------------ GameEntryForm
NoForm == [gameNumber |-> 0]

\* the form state: one PlayerScore per roster player, in roster order
MakeScores(pts, lr, la) ==
  [i \in Players |->
     [playerId |-> i, points |-> pts[i], longestRoad |-> (lr = i), largestArmy |-> (la = i)]]

Sheets ==
  {MakeScores(pts, a[1], a[2]) : pts \in [Players -> PointChoices], a \in AchievementChoices}

\* the top scorer taken as the winner, whatever the points
getWinner_TopScorer(scores) ==
  scores[CHOOSE i \in DOMAIN scores :
           \A j \in DOMAIN scores : scores[j].points <= scores[i].points].playerId

\* scores.find(score => score.points >= 10)?.playerId || null
getWinner(scores) ==
  IF \E i \in DOMAIN scores : scores[i].points >= WinThreshold
  THEN scores[CHOOSE i \in DOMAIN scores :
                /\ scores[i].points >= WinThreshold
                /\ \A j \in DOMAIN scores : j < i => scores[j].points < WinThreshold].playerId
  ELSE NullId

GamesOf(gms, tid) == {g \in gms : g.tournament_id = tid}

\* the count query's answer compared with tournament.total_games (count = -1: null)
TournamentFull(count, tournament) == count # -1 /\ count >= tournament.total_games

Toast(c, text) == [op |-> "handleSubmit", client |-> c, status |-> text]

\* handleSubmit up to the answer of the count query
SubmitCount(c, scores, gameNumber, countOk) ==
  /\ pc[c] = "idle"
  /\ LET tournament == ActiveTournament(ctxTournaments[c])
         winnerId == getWinner(scores)
         count == IF countOk THEN Cardinality(GamesOf(games, tournament.id)) ELSE -1
     IN IF tournament = NoTournament
        THEN /\ response' = Toast(c, "No active tournament")
             /\ UNCHANGED <<pc, form>>
        ELSE IF winnerId = NullId
        THEN /\ response' = Toast(c, "Someone must reach 10 points to win!")
             /\ UNCHANGED <<pc, form>>
        ELSE IF TournamentFull(count, tournament)
        THEN /\ response' = Toast(c, "is complete!")
             /\ UNCHANGED <<pc, form>>
        ELSE /\ nextGameId <= MaxGames
             /\ pc' = [pc EXCEPT ![c] = "counted"]
             /\ form' = [form EXCEPT ![c] =
                          [gameNumber |-> gameNumber, scores |-> scores,
                           winnerId |-> winnerId, tournament |-> tournament]]
             /\ UNCHANGED response
  /\ gameData' = [gameData EXCEPT ![c] = NullId]
  /\ UNCHANGED <<dbVars, ctxTournaments, deleteVars, createVars, riskVars, statsVars, liveVars, analyticsVars, formVars>>

\* the row of supabase.from('games').insert({...})
NewGameRow(id, f) ==
  [id |-> id, game_number |-> f.gameNumber, winner_id |-> f.winnerId,
   tournament_id |-> f.tournament.id]

\* handleSubmit: the game insert (ok = FALSE: the request ends in gameError)
InsertGame(c, ok) ==
  /\ pc[c] = "counted"
  /\ nextGameId <= MaxGames
  /\ IF ok
     THEN /\ games' = games \cup {NewGameRow(nextGameId, form[c])}
          /\ nextGameId' = nextGameId + 1
          /\ gameData' = [gameData EXCEPT ![c] = nextGameId]
          /\ pc' = [pc EXCEPT ![c] = "gameInserted"]
          /\ UNCHANGED <<form, response>>
     ELSE /\ pc' = [pc EXCEPT ![c] = "idle"]
          /\ response' = Toast(c, "Failed to add game")
          /\ form' = [form EXCEPT ![c] = NoForm]
          /\ UNCHANGED <<games, nextGameId, gameData>>
  /\ UNCHANGED <<tournaments, game_scores, tournament_player_stats, player_stats,
                 ctxTournaments, deleteVars, createVars, riskVars, statsVars, mountVars, analyticsVars, formVars>>
  /\ Notified

\* scores.map(score => ({ game_id: gameData.id, ... }))
ScoreRows(gid, scores) ==
  {[game_id |-> gid, player_id |-> scores[i].playerId, points |-> scores[i].points,
    longest_road |-> scores[i].longestRoad, largest_army |-> scores[i].largestArmy]
     : i \in DOMAIN scores}

\* setScores(players.map(player => ({ playerId: player.id, points: 0, ... }))): players
\* and scores are set together by fetchPlayers, so the rows are those of scores
ResetScores(scores) ==
  [i \in DOMAIN scores |->
     [playerId |-> scores[i].playerId, points |-> 0,
      longestRoad |-> FALSE, largestArmy |-> FALSE]]

\* handleSubmit: the score insert (one statement, the trigger firing per row),
\* then the success path or the catch block
InsertScores(c, ok) ==
  /\ pc[c] = "gameInserted"
  /\ LET rows == ScoreRows(gameData[c], form[c].scores)
         fkOk == \E g \in games : g.id = gameData[c]
     IN IF ok /\ fkOk
        THEN /\ game_scores' = game_scores \cup rows
             /\ tournament_player_stats' =
                  InsertRowsTournament(tournament_player_stats, games, rows)
             /\ player_stats' = InsertRowsGlobal(player_stats, games, rows)
             /\ response' = Toast(c, "added")
             /\ showGameForm' = [showGameForm EXCEPT ![c] = FALSE]
             /\ formScores' = [formScores EXCEPT ![c] = ResetScores(@)]
        ELSE /\ response' = Toast(c, "Failed to add game")
             /\ UNCHANGED <<game_scores, tournament_player_stats, player_stats, formVars>>
  /\ pc' = [pc EXCEPT ![c] = "idle"]
  /\ form' = [form EXCEPT ![c] = NoForm]
  /\ UNCHANGED <<tournaments, games, nextGameId, ctxTournaments, gameData, deleteVars,
                 createVars, riskVars, statsVars, mountVars, analyticsVars>>
  /\ Notified

\* ------------------------------------------------- GameEntryForm: the sheet
\* fetchPlayers: data.map(player => ({ playerId: player.id, points: 0, ... }))
LoadedScores ==
  [i \in Players |->
     [playerId |-> i, points |-> 0, longestRoad |-> FALSE, largestArmy |-> FALSE]]

\* prev.map(score => score.playerId === playerId ? { ...score, [field]: value } : score)
updateScore(scores, playerId, field, value) ==
  [i \in DOMAIN scores |->
     IF scores[i].playerId = playerId THEN [scores[i] EXCEPT ![field] = value]
     ELSE scores[i]]

\* the toggle that leaves the other players' flag as it is
toggleLongestRoad_NoClear(scores, playerId) ==
  [i \in DOMAIN scores |->
     [scores[i] EXCEPT !.longestRoad =
        IF scores[i].playerId = playerId THEN ~ scores[i].longestRoad ELSE @]]

toggleLongestRoad(scores, playerId) ==
  [i \in DOMAIN scores |->
     [scores[i] EXCEPT !.longestRoad =
        IF scores[i].playerId = playerId THEN ~ scores[i].longestRoad ELSE FALSE]]

toggleLargestArmy(scores, playerId) ==
  [i \in DOMAIN scores |->
     [scores[i] EXCEPT !.largestArmy =
        IF scores[i].playerId = playerId THEN ~ scores[i].largestArmy ELSE FALSE]]

\* a button of the open dialog; the sheet is not edited while a submission is in flight
FormEdit(c, newScores) ==
  /\ showGameForm[c]
  /\ pc[c] = "idle"
  /\ formScores' = [formScores EXCEPT ![c] = newScores]
  /\ UNCHANGED <<dbVars, clientVars, deleteVars, createVars, response, riskVars, statsVars, liveVars, analyticsVars,
                 showGameForm>>

\* the answer of fetchPlayers (the effect runs when the dialog opens or the tournament changes)
FetchPlayers(c) == FormEdit(c, LoadedScores)

IncreasePoints(c, i) ==
  /\ i \in DOMAIN formScores[c]
  /\ formScores[c][i].points < MaxFormPoints
  /\ FormEdit(c, updateScore(formScores[c], formScores[c][i].playerId, "points",
                             formScores[c][i].points + 1))

DecreasePoints(c, i) ==
  /\ i \in DOMAIN formScores[c]
  /\ FormEdit(c, updateScore(formScores[c], formScores[c][i].playerId, "points",
                             Greatest(0, formScores[c][i].points - 1)))

ToggleLongestRoad(c, i) ==
  /\ i \in DOMAIN formScores[c]
  /\ FormEdit(c, toggleLongestRoad(formScores[c], formScores[c][i].playerId))

ToggleLargestArmy(c, i) ==
  /\ i \in DOMAIN formScores[c]
  /\ FormEdit(c, toggleLargestArmy(formScores[c], formScores[c][i].playerId))

\* the Finalize Game button of the open dialog: handleSubmit on the sheet as it is
SubmitForm(c, gameNumber, countOk) ==
  /\ showGameForm[c]
  /\ formScores[c] # << >>
  /\ SubmitCount(c, formScores[c], gameNumber, countOk)

\* ------------------------------------------------------ POST /api/games/delete
AdminPassword == "admin"

Json(status) == [op |-> "games/delete", client |-> NullId, status |-> status]

\* the route without its comparison of password and adminPassword
DeleteScores_NoPasswordCheck(gameId, password, ok) ==
  /\ delPc = "idle"
  /\ IF gameId = NullId \/ password = ""
     THEN /\ response' = Json("400")
          /\ UNCHANGED <<game_scores, tournament_player_stats, player_stats, delPc,
                         delGameId>>
     ELSE IF ~ok
     THEN /\ response' = Json("500")
          /\ UNCHANGED <<game_scores, tournament_player_stats, player_stats, delPc,
                         delGameId>>
     ELSE LET rows == {s \in game_scores : s.game_id = gameId}
          IN /\ game_scores' = game_scores \ rows
             /\ tournament_player_stats' =
                  DeleteRowsTournament(tournament_player_stats, games, rows)
             /\ player_stats' = DeleteRowsGlobal(player_stats, games, rows)
             /\ delPc' = "scoresDeleted"
             /\ delGameId' = gameId
             /\ UNCHANGED response
  /\ UNCHANGED <<tournaments, games, nextGameId, clientVars, createVars, riskVars, statsVars, mountVars, analyticsVars, formVars>>
  /\ Notified

\* POST up to the answer of the game_scores delete
DeleteScores(gameId, password, ok) ==
  /\ delPc = "idle"
  /\ IF gameId = NullId \/ password = ""
     THEN /\ response' = Json("400")
          /\ UNCHANGED <<game_scores, tournament_player_stats, player_stats, delPc,
                         delGameId>>
     ELSE IF password # AdminPassword
     THEN /\ response' = Json("401")
          /\ UNCHANGED <<game_scores, tournament_player_stats, player_stats, delPc,
                         delGameId>>
     ELSE IF ~ok
     THEN /\ response' = Json("500")
          /\ UNCHANGED <<game_scores, tournament_player_stats, player_stats, delPc,
                         delGameId>>
     ELSE LET rows == {s \in game_scores : s.game_id = gameId}
          IN /\ game_scores' = game_scores \ rows
             /\ tournament_player_stats' =
                  DeleteRowsTournament(tournament_player_stats, games, rows)
             /\ player_stats' = DeleteRowsGlobal(player_stats, games, rows)
             /\ delPc' = "scoresDeleted"
             /\ delGameId' = gameId
             /\ UNCHANGED response
  /\ UNCHANGED <<tournaments, games, nextGameId, clientVars, createVars, riskVars, statsVars, mountVars, analyticsVars, formVars>>
  /\ Notified

\* the games delete issued whatever rows still reference the game
DeleteGameRow_IgnoreScores(ok) ==
  /\ delPc = "scoresDeleted"
  /\ IF ok
     THEN /\ games' = {g \in games : g.id # delGameId}
          /\ response' = Json("ok")
     ELSE /\ response' = Json("500")
          /\ UNCHANGED games
  /\ delPc' = "idle"
  /\ delGameId' = NullId
  /\ UNCHANGED <<tournaments, game_scores, tournament_player_stats, player_stats,
                 nextGameId, clientVars, createVars, riskVars, statsVars, mountVars, analyticsVars, formVars>>
  /\ Notified

\* POST: the games delete and the response
DeleteGameRow(ok) ==
  /\ delPc = "scoresDeleted"
  /\ LET fkOk == ~ \E s \in game_scores : s.game_id = delGameId
     IN IF ok /\ fkOk
        THEN /\ games' = {g \in games : g.id # delGameId}
             /\ response' = Json("ok")
        ELSE /\ response' = Json("500")
             /\ UNCHANGED games
  /\ delPc' = "idle"
  /\ delGameId' = NullId
  /\ UNCHANGED <<tournaments, game_scores, tournament_player_stats, player_stats,
                 nextGameId, clientVars, createVars, riskVars, statsVars, mountVars, analyticsVars, formVars>>
  /\ Notified

\* ------------------------------------------------------ POST /api/tournaments
NoBody == [name |-> << >>]

\* String.prototype.trim on a sequence of tokens
RECURSIVE TrimStart(_)
TrimStart(name) ==
  IF name # << >> /\ Head(name) = " " THEN TrimStart(Tail(name)) ELSE name

RECURSIVE TrimEnd(_)
TrimEnd(name) ==
  IF name # << >> /\ name[Len(name)] = " "
  THEN TrimEnd(SubSeq(name, 1, Len(name) - 1))
  ELSE name

Trim(name) == TrimEnd(TrimStart(name))

TournamentJson(r, status) == [op |-> "tournaments", client |-> r, status |-> status]

\* .select('id').eq('name', name.trim()).single(): the row when exactly one matches
ExistingByName(tbl, name) ==
  LET found == {i \in DOMAIN tbl : tbl[i].name = Trim(name)}
  IN IF Cardinality(found) = 1 THEN found ELSE {}

\* POST up to the answer of the name query
CreateCheck(r, name, totalGames, password) ==
  /\ ctPc[r] = "idle"
  /\ IF name = << >>
     THEN /\ response' = TournamentJson(r, "400 Tournament name is required")
          /\ UNCHANGED <<ctPc, ctBody>>
     ELSE IF password = ""
     THEN /\ response' = TournamentJson(r, "400 Admin password is required")
          /\ UNCHANGED <<ctPc, ctBody>>
     ELSE IF password # AdminPassword
     THEN /\ response' = TournamentJson(r, "401")
          /\ UNCHANGED <<ctPc, ctBody>>
     ELSE IF ExistingByName(tournaments, name) # {}
     THEN /\ response' = TournamentJson(r, "400 A tournament with this name already exists")
          /\ UNCHANGED <<ctPc, ctBody>>
     ELSE /\ Cardinality(DOMAIN tournaments) < MaxTournaments
          /\ ctPc' = [ctPc EXCEPT ![r] = "checked"]
          /\ ctBody' = [ctBody EXCEPT ![r] = [name |-> name, totalGames |-> totalGames]]
          /\ UNCHANGED response
  /\ ctTournament' = [ctTournament EXCEPT ![r] = NullId]
  /\ UNCHANGED <<dbVars, clientVars, deleteVars, riskVars, statsVars, liveVars, analyticsVars, formVars>>

\* .update({ status: 'completed' }).eq('status', 'active'); its error is not read
DemoteActive(tbl) ==
  [i \in DOMAIN tbl |->
     IF tbl[i].status = "active" THEN [tbl[i] EXCEPT !.status = "completed"] ELSE tbl[i]]

CreateDemote(r, ok) ==
  /\ ctPc[r] = "checked"
  /\ tournaments' = IF ok THEN DemoteActive(tournaments) ELSE tournaments
  /\ ctPc' = [ctPc EXCEPT ![r] = "demoted"]
  /\ UNCHANGED <<games, game_scores, tournament_player_stats, player_stats, nextGameId,
                 clientVars, deleteVars, ctBody, ctTournament, response, riskVars, statsVars, liveVars, analyticsVars, formVars>>

\* the row of .insert({ name: name.trim(), total_games: totalGames || 20, ... })
NewTournamentRow(id, body) ==
  [id |-> id, name |-> Trim(body.name),
   total_games |-> IF body.totalGames = 0 THEN DefaultTotalGames ELSE body.totalGames,
   prize_pool |-> DefaultPrizePool, status |-> "active", created_at |-> id]

\* POST: the tournaments insert (ok = FALSE: createError, response 500)
CreateInsert(r, ok) ==
  /\ ctPc[r] = "demoted"
  /\ Cardinality(DOMAIN tournaments) < MaxTournaments
  /\ LET id == Cardinality(DOMAIN tournaments) + 1
     IN IF ok
        THEN /\ tournaments' = tournaments @@ (id :> NewTournamentRow(id, ctBody[r]))
             /\ ctTournament' = [ctTournament EXCEPT ![r] = id]
             /\ ctPc' = [ctPc EXCEPT ![r] = "inserted"]
             /\ UNCHANGED <<ctBody, response>>
        ELSE /\ response' = TournamentJson(r, "500")
             /\ ctPc' = [ctPc EXCEPT ![r] = "idle"]
             /\ ctBody' = [ctBody EXCEPT ![r] = NoBody]
             /\ UNCHANGED <<tournaments, ctTournament>>
  /\ UNCHANGED <<games, game_scores, tournament_player_stats, player_stats, nextGameId,
                 clientVars, deleteVars, riskVars, statsVars, liveVars, analyticsVars, formVars>>

\* players.map(player => ({ tournament_id: tournament.id, player_id: player.id, 0 ... }))
StatsToInsert(tid) == [k \in {tid} \X Players |-> ZeroStats]

\* POST: the stats seeding (a statsError is only logged) and the success response
CreateSeed(r, ok) ==
  /\ ctPc[r] = "inserted"
  /\ tournament_player_stats' =
       IF ok /\ (DOMAIN StatsToInsert(ctTournament[r])) \cap DOMAIN tournament_player_stats = {}
       THEN tournament_player_stats @@ StatsToInsert(ctTournament[r])
       ELSE tournament_player_stats
  /\ response' = TournamentJson(r, "200")
  /\ ctPc' = [ctPc EXCEPT ![r] = "idle"]
  /\ ctBody' = [ctBody EXCEPT ![r] = NoBody]
  /\ UNCHANGED <<tournaments, games, game_scores, player_stats, nextGameId, clientVars,
                 deleteVars, ctTournament, riskVars, statsVars, mountVars, analyticsVars, formVars>>
  /\ Notified

\* ------------------------------------------------- Leaderboard: lose chance
\* JavaScript numbers are IEEE-754 binary64: sign * m * 2^e with m of at most
\* MantBits bits, every inexact operation rounding to nearest, ties to even.
\* m is a natural number in limbs of LimbBits bits, least significant first.
LimbBits == 3 * 5
LimbBase == 2 ^ LimbBits
MantBits == 52 + 1

Limb(a, i) == IF i <= Len(a) THEN a[i] ELSE 0

RECURSIVE BigTrim(_)
BigTrim(a) ==
  IF a # << >> /\ a[Len(a)] = 0 THEN BigTrim(SubSeq(a, 1, Len(a) - 1)) ELSE a

RECURSIVE BigOf(_)
BigOf(n) == IF n = 0 THEN << >> ELSE <<n % LimbBase>> \o BigOf(n \div LimbBase)

RECURSIVE BigAddFrom(_, _, _, _)
BigAddFrom(a, b, i, carry) ==
  IF i > Len(a) /\ i > Len(b) THEN BigOf(carry)
  ELSE LET sum == Limb(a, i) + Limb(b, i) + carry
       IN <<sum % LimbBase>> \o BigAddFrom(a, b, i + 1, sum \div LimbBase)

BigAdd(a, b) == BigAddFrom(a, b, 1, 0)

\* a - b for a >= b
RECURSIVE BigSubFrom(_, _, _, _)
BigSubFrom(a, b, i, borrow) ==
  IF i > Len(a) THEN << >>
  ELSE LET diff == Limb(a, i) - Limb(b, i) - borrow
       IN IF diff < 0
          THEN <<diff + LimbBase>> \o BigSubFrom(a, b, i + 1, 1)
          ELSE <<diff>> \o BigSubFrom(a, b, i + 1, 0)

BigSub(a, b) == BigTrim(BigSubFrom(a, b, 1, 0))

RECURSIVE BigCmpFrom(_, _, _)
BigCmpFrom(a, b, i) ==
  IF i = 0 THEN 0
  ELSE IF a[i] # b[i] THEN (IF a[i] < b[i] THEN -1 ELSE 1)
  ELSE BigCmpFrom(a, b, i - 1)

\* -1, 0 or 1 as a < b, a = b, a > b
BigCmp(a, b) ==
  IF Len(a) # Len(b) THEN (IF Len(a) < Len(b) THEN -1 ELSE 1)
  ELSE BigCmpFrom(a, b, Len(a))

\* a * k for a limb k
RECURSIVE BigMulLimbFrom(_, _, _, _)
BigMulLimbFrom(a, k, i, carry) ==
  IF i > Len(a) THEN BigOf(carry)
  ELSE LET prod == a[i] * k + carry
       IN <<prod % LimbBase>> \o BigMulLimbFrom(a, k, i + 1, prod \div LimbBase)

BigMulLimb(a, k) == IF k = 0 THEN << >> ELSE BigMulLimbFrom(a, k, 1, 0)

\* a * LimbBase^n
LimbShift(a, n) == IF a = << >> THEN << >> ELSE [i \in 1 .. n |-> 0] \o a

RECURSIVE BigMulFrom(_, _, _)
BigMulFrom(a, b, i) ==
  IF i > Len(b) THEN << >>
  ELSE BigAdd(LimbShift(BigMulLimb(a, b[i]), i - 1), BigMulFrom(a, b, i + 1))

BigMul(a, b) == BigMulFrom(a, b, 1)

\* quotient and remainder of a by a limb k > 0
RECURSIVE BigDivLimbFrom(_, _, _, _)
BigDivLimbFrom(a, k, i, rem) ==
  IF i = 0 THEN [q |-> << >>, r |-> rem]
  ELSE LET cur == rem * LimbBase + a[i]
           rest == BigDivLimbFrom(a, k, i - 1, cur % k)
       IN [q |-> rest.q \o <<cur \div k>>, r |-> rest.r]

BigDivLimb(a, k) ==
  LET d == BigDivLimbFrom(a, k, Len(a), 0) IN [q |-> BigTrim(d.q), r |-> d.r]

\* a * 2^n
BigShl(a, n) == LimbShift(BigMulLimb(a, 2 ^ (n % LimbBits)), n \div LimbBits)

RECURSIVE BitLen(_)
BitLen(x) == IF x = 0 THEN 0 ELSE 1 + BitLen(x \div 2)

BigBitLen(a) == IF a = << >> THEN 0 ELSE LimbBits * (Len(a) - 1) + BitLen(a[Len(a)])

\* floor(a / 2^n) and the bits dropped
BigShr(a, n) ==
  LET whole == n \div LimbBits
      d == BigDivLimb(SubSeq(a, whole + 1, Len(a)), 2 ^ (n % LimbBits))
  IN [q |-> d.q,
      r |-> BigTrim([i \in 1 .. whole |-> Limb(a, i)] \o <<d.r>>)]

\* a / 2^n rounded to the nearest integer, a tie to the even one
BigShrRound(a, n) ==
  LET d == BigShr(a, n)
      half == BigCmp(d.r, BigShl(<<1>>, n - 1))
  IN IF half > 0 \/ (half = 0 /\ Limb(d.q, 1) % 2 = 1) THEN BigAdd(d.q, <<1>>) ELSE d.q

\* the double nearest to s * m * 2^e
Round53(s, m, e) ==
  LET extra == BigBitLen(m) - MantBits
  IN IF extra <= 0 THEN [s |-> s, m |-> m, e |-> e]
     ELSE [s |-> s, m |-> BigShrRound(m, extra), e |-> e + extra]

\* an integer literal, and the literals 3.5 and 1.5
Num(n) == [s |-> IF n < 0 THEN -1 ELSE 1, m |-> BigOf(IF n < 0 THEN -n ELSE n), e |-> 0]
Halves(n) == [s |-> 1, m |-> BigOf(n), e |-> -1]

Neg(a) == [s |-> -a.s, m |-> a.m, e |-> a.e]

\* a + b exactly
ExactAdd(a, b) ==
  LET e == IF a.e < b.e THEN a.e ELSE b.e
      ma == BigShl(a.m, a.e - e)
      mb == BigShl(b.m, b.e - e)
      c == BigCmp(ma, mb)
  IN IF a.s = b.s THEN [s |-> a.s, m |-> BigAdd(ma, mb), e |-> e]
     ELSE IF c = 0 THEN [s |-> 1, m |-> << >>, e |-> 0]
     ELSE IF c > 0 THEN [s |-> a.s, m |-> BigSub(ma, mb), e |-> e]
     ELSE [s |-> b.s, m |-> BigSub(mb, ma), e |-> e]

\* the operators +, -, * and / of two numbers
NumAdd(a, b) == LET x == ExactAdd(a, b) IN Round53(x.s, x.m, x.e)
NumSub(a, b) == NumAdd(a, Neg(b))
NumMul(a, b) ==
  IF a.m = << >> \/ b.m = << >> THEN Num(0)
  ELSE Round53(a.s * b.s, BigMul(a.m, b.m), a.e + b.e)

\* a / b for a divisor whose m is one limb (every divisor of calculateLoseChance is a
\* small integer or half-integer): 5 limbs of quotient bits and a sticky bit, rounded
NumDiv(a, b) ==
  IF a.m = << >> THEN Num(0)
  ELSE LET d == BigDivLimb(LimbShift(a.m, 5), b.m[1])
           sticky == IF d.r = 0 THEN << >> ELSE <<1>>
       IN Round53(a.s * b.s, BigAdd(BigShl(d.q, 1), sticky), a.e - b.e - 5 * LimbBits - 1)

NumLe(a, b) == LET x == ExactAdd(a, Neg(b)) IN x.m = << >> \/ x.s = -1
MathMin(a, b) == IF NumLe(a, b) THEN a ELSE b
MathMax(a, b) == IF NumLe(a, b) THEN b ELSE a

\* Math.round of a positive number: floor(x + 0.5), computed exactly
MathRound(a) ==
  LET x == ExactAdd(a, Halves(1))
      q == IF x.e >= 0 THEN BigShl(x.m, x.e) ELSE BigShr(x.m, -x.e).q
  IN Limb(q, 1) + LimbBase * Limb(q, 2)

\* the comparator without its wins tie-break
Compare_PointsOnly(a, b) == b.stats.total_points - a.stats.total_points

\* the comparator of sortedPlayers: a negative value puts a first
\* b.stats.total_points - a.stats.total_points || b.stats.wins - a.stats.wins
Compare(a, b) ==
  IF b.stats.total_points - a.stats.total_points # 0
  THEN b.stats.total_points - a.stats.total_points
  ELSE b.stats.wins - a.stats.wins

\* Array.prototype.sort is stable: x goes after the last element it does not precede
RECURSIVE InsertSorted(_, _)
InsertSorted(sorted, x) ==
  IF sorted = << >> THEN <<x>>
  ELSE IF Compare(x, sorted[Len(sorted)]) < 0
       THEN InsertSorted(SubSeq(sorted, 1, Len(sorted) - 1), x) \o <<sorted[Len(sorted)]>>
       ELSE sorted \o <<x>>

RECURSIVE SortPlayers(_)
SortPlayers(list) ==
  IF list = << >> THEN << >>
  ELSE InsertSorted(SortPlayers(SubSeq(list, 1, Len(list) - 1)), list[Len(list)])

\* data.stats.find(s => s.player_id === playerId) || { total_points: 0, wins: 0, ... }
getPlayerStats(stats, playerId) ==
  IF playerId \in DOMAIN stats THEN stats[playerId] ELSE [total_points |-> 0, wins |-> 0]

\* data.players.map(player => ({ ...player, stats })).sort(...)
sortedPlayers(players, stats) ==
  SortPlayers([i \in DOMAIN players |->
                 [id |-> players[i], stats |-> getPlayerStats(stats, players[i])]])

avgSwingPerGame == Halves(7)
maxLoseChance == 65
minLoseChance == 8

\* the divisor of positionPenalty used for the equal chance
EqualChanceAtStart_OthersOnly(numPlayers) ==
  MathRound(NumDiv(Num(100), MathMax(Num(numPlayers - 1), Num(1))))

\* return Math.round(100 / Math.max(numPlayers, 1))
EqualChanceAtStart(numPlayers) ==
  MathRound(NumDiv(Num(100), MathMax(Num(numPlayers), Num(1))))

\* the result without Math.min / Math.max
ClampRound_NoClamp(adjustedChance) == MathRound(adjustedChance)

\* return Math.round(Math.min(90, Math.max(5, adjustedChance)))
ClampRound(adjustedChance) == MathRound(MathMin(Num(90), MathMax(Num(5), adjustedChance)))

\* the penalty counted from the first place down
positionPenalty_FromTop(playerRank, numPlayers) ==
  NumMul(NumDiv(Num(numPlayers - playerRank), MathMax(Num(numPlayers - 1), Num(1))),
         Num(8))

\* ((playerRank - 1) / Math.max(numPlayers - 1, 1)) * 8
positionPenalty(playerRank, numPlayers) ==
  NumMul(NumDiv(Num(playerRank - 1), MathMax(Num(numPlayers - 1), Num(1))), Num(8))

calculateLoseChance(playerStats, playerRank, sorted, gamesPlayed, total_games) ==
  LET totalGamesInTournament == IF total_games = 0 THEN DefaultTotalGames ELSE total_games
      remainingGames == totalGamesInTournament - gamesPlayed
      numPlayers == Len(sorted)
  IN IF gamesPlayed = 0 \/ numPlayers = 0
     THEN EqualChanceAtStart(numPlayers)
     ELSE IF remainingGames <= 0
     THEN IF playerRank = numPlayers THEN 100 ELSE 0
     ELSE
       LET myPoints == playerStats.total_points
           lastPlacePoints == sorted[numPlayers].stats.total_points
           gapFromLast == myPoints - lastPlacePoints
           totalPotentialSwing == NumMul(Num(remainingGames), avgSwingPerGame)
           safetyMargin ==
             MathMin(NumDiv(Num(gapFromLast), MathMax(totalPotentialSwing, Num(1))), Num(1))
           baseChance0 ==
             NumSub(Num(maxLoseChance),
                    NumMul(safetyMargin, Num(maxLoseChance - minLoseChance)))
           baseChance == NumAdd(baseChance0, positionPenalty(playerRank, numPlayers))
           progressRatio == NumDiv(Num(gamesPlayed), Num(totalGamesInTournament))
           confidenceFactor == MathMin(NumMul(progressRatio, Halves(3)), Num(1))
           equalChance == NumDiv(Num(100), Num(numPlayers))
           adjustedChance ==
             NumAdd(equalChance, NumMul(NumSub(baseChance, equalChance), confidenceFactor))
       IN ClampRound(adjustedChance)

\* sortedPlayers.map((player, index) => calculateLoseChance(player.stats, index + 1))
RenderRisk ==
  /\ lbRisk = << >>
  /\ lbPlayers # << >>
  /\ LET sorted == sortedPlayers(lbPlayers, lbStats)
     IN lbRisk' = [p \in {sorted[i].id : i \in DOMAIN sorted} |->
                    LET rank == CHOOSE i \in DOMAIN sorted : sorted[i].id = p
                    IN calculateLoseChance(sorted[rank].stats, rank, sorted,
                                           lbTotalGames, lbTarget)]
  /\ UNCHANGED <<dbVars, clientVars, deleteVars, createVars, response, formVars, statsVars, liveVars, analyticsVars,
                 lbPlayers, lbStats, lbTotalGames, lbTarget, lbCall>>

NoCall == << >>

\* with no players the list renders nothing; the function applied to the default stats
\* of getPlayerStats or to a stats row, at any rank
CallLoseChance(playerStats, playerRank) ==
  /\ lbPlayers = << >>
  /\ lbCall = NoCall
  /\ lbCall' = [playerStats |-> playerStats, playerRank |-> playerRank,
                result |-> calculateLoseChance(playerStats, playerRank,
                                               sortedPlayers(lbPlayers, lbStats),
                                               lbTotalGames, lbTarget)]
  /\ UNCHANGED <<dbVars, clientVars, deleteVars, createVars, response, formVars, statsVars, liveVars, analyticsVars,
                 lbPlayers, lbStats, lbTotalGames, lbTarget, lbRisk>>


\* ------------------------------------------- StatsPage: time at top / bottom
\* [...games].sort((a, b) => a.game_number - b.game_number): a stable sort
RECURSIVE InsertByGameNumber(_, _)
InsertByGameNumber(sorted, game) ==
  IF sorted = << >> THEN <<game>>
  ELSE IF sorted[Len(sorted)].game_number <= game.game_number
       THEN Append(sorted, game)
       ELSE Append(InsertByGameNumber(SubSeq(sorted, 1, Len(sorted) - 1), game),
                   sorted[Len(sorted)])

RECURSIVE SortByGameNumber(_)
SortByGameNumber(gms) ==
  IF gms = << >> THEN << >>
  ELSE InsertByGameNumber(SortByGameNumber(SubSeq(gms, 1, Len(gms) - 1)), gms[Len(gms)])

\* gameScores.find(gs => gs.game_id === gameToCheck.id && gs.player_id === player.id),
\* and its points, nothing being added when there is no row
FoundPoints(gameScores, gameId, playerId) ==
  LET found == {gs \in gameScores : gs.game_id = gameId /\ gs.player_id = playerId}
  IN IF found = {} THEN 0 ELSE (CHOOSE gs \in found : TRUE).points

\* for (let i = 0; i <= gameIndex; i++) totalPoints += playerScore.points
RECURSIVE totalPoints(_, _, _, _)
totalPoints(sortedGames, gameScores, playerId, gameIndex) ==
  IF gameIndex = 0 THEN 0
  ELSE totalPoints(sortedGames, gameScores, playerId, gameIndex - 1)
       + FoundPoints(gameScores, sortedGames[gameIndex].id, playerId)

cumulativeScores_ThisGameOnly(players, sortedGames, gameScores, gameIndex) ==
  [k \in DOMAIN players |->
     [playerId |-> players[k],
      totalPoints |-> FoundPoints(gameScores, sortedGames[gameIndex].id, players[k])]]

\* the entries of cumulativeScores in key order, which is the order of players
cumulativeScores(players, sortedGames, gameScores, gameIndex) ==
  [k \in DOMAIN players |->
     [playerId |-> players[k],
      totalPoints |-> totalPoints(sortedGames, gameScores, players[k], gameIndex)]]

RECURSIVE ReduceTop_LastTied(_, _)
ReduceTop_LastTied(entries, k) ==
  IF k = 1 THEN 1
  ELSE LET prev == ReduceTop_LastTied(entries, k - 1)
       IN IF entries[k].totalPoints >= entries[prev].totalPoints THEN k ELSE prev

\* Object.keys(cumulativeScores).reduce((prev, current) =>
\*   cumulativeScores[current] > cumulativeScores[prev] ? current : prev)
RECURSIVE ReduceTop(_, _)
ReduceTop(entries, k) ==
  IF k = 1 THEN 1
  ELSE LET prev == ReduceTop(entries, k - 1)
       IN IF entries[k].totalPoints > entries[prev].totalPoints THEN k ELSE prev

RECURSIVE ReduceBottom(_, _)
ReduceBottom(entries, k) ==
  IF k = 1 THEN 1
  ELSE LET prev == ReduceBottom(entries, k - 1)
       IN IF entries[k].totalPoints < entries[prev].totalPoints THEN k ELSE prev

topPlayerId(entries) == entries[ReduceTop(entries, Len(entries))].playerId

bottomPlayerId(entries) == entries[ReduceBottom(entries, Len(entries))].playerId

\* .sort((a, b) => b.value - a.value): a stable sort, greatest value first
RECURSIVE InsertByValue(_, _)
InsertByValue(sorted, leader) ==
  IF sorted = << >> THEN <<leader>>
  ELSE IF sorted[Len(sorted)].value >= leader.value
       THEN Append(sorted, leader)
       ELSE Append(InsertByValue(SubSeq(sorted, 1, Len(sorted) - 1), leader),
                   sorted[Len(sorted)])

RECURSIVE SortByValue(_)
SortByValue(leaders) ==
  IF leaders = << >> THEN << >>
  ELSE InsertByValue(SortByValue(SubSeq(leaders, 1, Len(leaders) - 1)),
                     leaders[Len(leaders)])

getMostGamesAtTop(players, gms, gameScores) ==
  LET sortedGames == SortByGameNumber(gms)
      topPositions(playerId) ==
        Cardinality({gameIndex \in DOMAIN sortedGames :
          LET entries == cumulativeScores(players, sortedGames, gameScores, gameIndex)
          IN Len(entries) > 0 /\ topPlayerId(entries) = playerId})
  IN SortByValue([k \in DOMAIN players |->
                    [player |-> players[k], value |-> topPositions(players[k])]])

getMostGamesAtBottom(players, gms, gameScores) ==
  LET sortedGames == SortByGameNumber(gms)
      bottomPositions(playerId) ==
        Cardinality({gameIndex \in DOMAIN sortedGames :
          LET entries == cumulativeScores(players, sortedGames, gameScores, gameIndex)
          IN Len(entries) > 0 /\ bottomPlayerId(entries) = playerId})
  IN SortByValue([k \in DOMAIN players |->
                    [player |-> players[k], value |-> bottomPositions(players[k])]])

\* the render after fetchStatsData: the tables are drawn when there are games
RenderStats ==
  /\ stLoading
  /\ stLoading' = FALSE
  /\ IF Len(stGames) = 0
     THEN UNCHANGED <<stTop, stBottom>>
     ELSE /\ stTop' = getMostGamesAtTop(stPlayers, stGames, stGameScores)
          /\ stBottom' = getMostGamesAtBottom(stPlayers, stGames, stGameScores)
  /\ UNCHANGED <<dbVars, clientVars, deleteVars, createVars, response, riskVars, formVars,
                 liveVars, analyticsVars, stPlayers, stGames, stGameScores>>


\* ------------------------------------------------- seasons: shared queries
\* .order('game_number', { ascending: true })
RECURSIVE OrderByGameNumber(_)
OrderByGameNumber(rows) ==
  IF rows = {} THEN << >>
  ELSE LET r == CHOOSE x \in rows : \A y \in rows : x.game_number <= y.game_number
       IN <<r>> \o OrderByGameNumber(rows \ {r})

\* .limit(n)
Limit(list, n) == SubSeq(list, 1, IF n < Len(list) THEN n ELSE Len(list))

\* list.filter(g => g.game_number <= n)
RECURSIVE UpToGameNumber(_, _)
UpToGameNumber(list, n) ==
  IF list = << >> THEN << >>
  ELSE IF Head(list).game_number <= n
       THEN <<Head(list)>> \o UpToGameNumber(Tail(list), n)
       ELSE UpToGameNumber(Tail(list), n)

\* list.map(g => g.id)
GameIdsOf(list) == {list[i].id : i \in DOMAIN list}

\* .in('game_id', gameIds)
ScoresIn(scores, gameIds) == {s \in scores : s.game_id \in gameIds}

RECURSIVE SumField(_, _)
SumField(rows, field) ==
  IF rows = {} THEN 0
  ELSE LET r == CHOOSE x \in rows : TRUE IN r[field] + SumField(rows \ {r}, field)

\* .from('players').select('*').order('name'): the roster, ids standing for names
RECURSIVE OrderByName(_)
OrderByName(ids) ==
  IF ids = {} THEN << >>
  ELSE LET p == CHOOSE x \in ids : \A y \in ids : x <= y
       IN <<p>> \o OrderByName(ids \ {p})

PlayersByName == OrderByName(Players)

\* [...tournaments].sort((a, b) =>
\*   new Date(a.created_at).getTime() - new Date(b.created_at).getTime()), a stable sort
RECURSIVE InsertByCreated(_, _)
InsertByCreated(sorted, t) ==
  IF sorted = << >> THEN <<t>>
  ELSE IF sorted[Len(sorted)].created_at <= t.created_at
       THEN Append(sorted, t)
       ELSE Append(InsertByCreated(SubSeq(sorted, 1, Len(sorted) - 1), t),
                   sorted[Len(sorted)])

RECURSIVE sortedTournaments(_)
sortedTournaments(list) ==
  IF list = << >> THEN << >>
  ELSE InsertByCreated(sortedTournaments(SubSeq(list, 1, Len(list) - 1)), list[Len(list)])

\* list.findIndex(t => t.id === id): the index counted from 0, -1 when there is none
findIndex(list, id) ==
  IF \E i \in DOMAIN list : list[i].id = id
  THEN (CHOOSE i \in DOMAIN list :
          list[i].id = id /\ \A j \in 1 .. i - 1 : list[j].id # id) - 1
  ELSE -1

\* the tournament before the selected one in the list as it was fetched
previousTournament_Unsorted(list, selected) ==
  LET currentIndex == findIndex(list, selected.id)
  IN IF currentIndex <= 0 THEN NoTournament ELSE list[currentIndex]

\* sortedTournaments[currentIndex - 1], or nothing when currentIndex <= 0
previousTournament(list, selected) ==
  LET sorted == sortedTournaments(list)
      currentIndex == findIndex(sorted, selected.id)
  IN IF currentIndex <= 0 THEN NoTournament ELSE sorted[currentIndex]

\* ------------------------------------------------- Leaderboard: fetchData
\* .from('tournament_player_stats').select('*').eq('tournament_id', id)
StatsOf(tps, tid) ==
  [p \in {k[2] : k \in {x \in DOMAIN tps : x[1] = tid}} |-> tps[<<tid, p>>]]

\* a call of fetchData: the closure holds selectedTournament and tournaments
NewFetch(selected) ==
  [phase |-> "started", tournament |-> selected, tournaments |-> ctxTournaments[1],
   players |-> << >>, stats |-> << >>, totalGames |-> 0]

RemoveAt(list, i) == SubSeq(list, 1, i - 1) \o SubSeq(list, i + 1, Len(list))

\* the handler of a change notification: fetchData()
FetchData ==
  /\ activeTab = "leaderboard"
  /\ selectedTournament # NoTournament
  /\ lbPending
  /\ Len(lbFetches) < MaxFetches
  /\ lbPending' = FALSE
  /\ lbFetches' = Append(lbFetches, NewFetch(selectedTournament))
  /\ UNCHANGED <<dbVars, clientVars, deleteVars, createVars, response, riskVars, formVars,
                 statsVars, analyticsVars, activeTab, selectedTournament, lbComparison>>

\* setSelectedTournament(t) by the selector shown in the Leaderboard: the effect runs
\* again and calls fetchData()
SelectTournament(t) ==
  /\ activeTab = "leaderboard"
  /\ t # selectedTournament
  /\ Len(lbFetches) < MaxFetches
  /\ selectedTournament' = t
  /\ lbTarget' = t.total_games
  /\ lbFetches' = Append(lbFetches, NewFetch(t))
  /\ UNCHANGED <<dbVars, clientVars, deleteVars, createVars, response, formVars, statsVars,
                 analyticsVars, activeTab, lbPlayers, lbStats, lbTotalGames, lbRisk, lbCall,
                 lbComparison, lbPending>>

\* fetchData: the answers of its three queries
FetchRead(i) ==
  /\ activeTab = "leaderboard"
  /\ i \in DOMAIN lbFetches
  /\ lbFetches[i].phase = "started"
  /\ LET id == lbFetches[i].tournament.id
     IN lbFetches' =
          [lbFetches EXCEPT ![i] =
             [@ EXCEPT !.phase = "read",
                       !.players = PlayersByName,
                       !.stats = StatsOf(tournament_player_stats, id),
                       !.totalGames = Cardinality(GamesOf(games, id))]]
  /\ UNCHANGED <<dbVars, clientVars, deleteVars, createVars, response, riskVars, formVars,
                 statsVars, analyticsVars, activeTab, selectedTournament, lbPending, lbComparison>>

\* fetchData: setData({...}), then fetchComparisonData up to its first query
FetchSetData(i) ==
  /\ activeTab = "leaderboard"
  /\ i \in DOMAIN lbFetches
  /\ lbFetches[i].phase = "read"
  /\ LET f == lbFetches[i]
     IN /\ lbPlayers' = f.players
        /\ lbStats' = f.stats
        /\ lbTotalGames' = f.totalGames
        /\ lbRisk' = << >>
        /\ IF f.totalGames = 0 \/ previousTournament(f.tournaments, f.tournament) = NoTournament
           THEN /\ lbComparison' = << >>
                /\ lbFetches' = RemoveAt(lbFetches, i)
           ELSE /\ lbFetches' = [lbFetches EXCEPT ![i].phase = "comparing"]
                /\ UNCHANGED lbComparison
  /\ UNCHANGED <<dbVars, clientVars, deleteVars, createVars, response, formVars, statsVars,
                 analyticsVars, activeTab, selectedTournament, lbPending, lbTarget, lbCall>>

\* .eq('tournament_id', previousTournament.id).order('game_number').limit(currentGames)
leaderboardPrevGames(gms, previous, currentGames) ==
  Limit(OrderByGameNumber(GamesOf(gms, previous.id)), currentGames)

\* fetchComparisonData(players, currentGames) from its first query on
leaderboardComparison(players, currentGames, previous, selected, gms, scores, tps) ==
  LET prevGames == leaderboardPrevGames(gms, previous, currentGames)
      prevScores == ScoresIn(scores, GameIdsOf(prevGames))
  IN IF Len(prevGames) = 0 THEN << >>
     ELSE [k \in DOMAIN players |->
             LET currentPoints ==
                   IF <<selected.id, players[k]>> \in DOMAIN tps
                   THEN tps[<<selected.id, players[k]>>].total_points ELSE 0
                 previousPoints ==
                   SumField({s \in prevScores : s.player_id = players[k]}, "points")
             IN [playerId |-> players[k], currentPoints |-> currentPoints,
                 previousPoints |-> previousPoints,
                 difference |-> currentPoints - previousPoints]]

FetchCompare(i) ==
  /\ activeTab = "leaderboard"
  /\ i \in DOMAIN lbFetches
  /\ lbFetches[i].phase = "comparing"
  /\ LET f == lbFetches[i]
     IN lbComparison' =
          leaderboardComparison(f.players, f.totalGames,
                                previousTournament(f.tournaments, f.tournament),
                                f.tournament, games, game_scores, tournament_player_stats)
  /\ lbFetches' = RemoveAt(lbFetches, i)
  /\ UNCHANGED <<dbVars, clientVars, deleteVars, createVars, response, riskVars, formVars,
                 statsVars, analyticsVars, activeTab, selectedTournament, lbPending>>

\* ------------------------------------------------- Analytics
\* fetchAnalyticsData: players, the games of the selected tournament and their scores;
\* selectedGame becomes the latest game number
FetchAnalyticsData ==
  /\ activeTab = "analytics"
  /\ anLoading
  /\ selectedTournament # NoTournament
  /\ LET gamesRes == OrderByGameNumber(GamesOf(games, selectedTournament.id))
     IN /\ anGames' = gamesRes
        /\ anGameScores' = ScoresIn(game_scores, GameIdsOf(gamesRes))
        /\ anSelectedGame' =
             IF Len(gamesRes) > 0 THEN gamesRes[Len(gamesRes)].game_number ELSE 1
  /\ anLoading' = FALSE
  /\ anSeries' = << >>
  /\ UNCHANGED <<dbVars, clientVars, deleteVars, createVars, response, riskVars, formVars,
                 statsVars, liveVars, anComparison, anPreviousTournament, anProgress>>

\* games.map(g => g.game_number).sort((a, b) => a - b)
getAvailableGames(gms) == [i \in DOMAIN gms |-> gms[i].game_number]

\* availableGames.indexOf(selectedGame), counted from 0
indexOf(list, x) ==
  IF \E i \in DOMAIN list : list[i] = x
  THEN (CHOOSE i \in DOMAIN list : list[i] = x /\ \A j \in 1 .. i - 1 : list[j] # x) - 1
  ELSE -1

\* the game navigation buttons
SelectGame(step) ==
  /\ activeTab = "analytics"
  /\ ~anLoading
  /\ LET availableGames == getAvailableGames(anGames)
         currentIndex == indexOf(availableGames, anSelectedGame)
     IN /\ IF step = -1 THEN currentIndex > 0 ELSE currentIndex < Len(availableGames) - 1
        /\ anSelectedGame' = availableGames[currentIndex + step + 1]
  /\ anSeries' = << >>
  /\ UNCHANGED <<dbVars, clientVars, deleteVars, createVars, response, riskVars, formVars,
                 statsVars, liveVars, anLoading, anGames, anGameScores, anComparison,
                 anPreviousTournament, anProgress>>

\* the stats of one player over some games and the scores fetched for them
StatsByPlayer(playerId, gms, scores) ==
  LET mine == {s \in scores : s.player_id = playerId}
  IN [points |-> SumField(mine, "points"),
      wins |-> Cardinality({i \in DOMAIN gms : gms[i].winner_id = playerId}),
      longestRoad |-> Cardinality({s \in mine : s.longest_road}),
      largestArmy |-> Cardinality({s \in mine : s.largest_army})]

\* .sort((a, b) => b.currentPoints - a.currentPoints), a stable sort
RECURSIVE InsertByCurrentPoints(_, _)
InsertByCurrentPoints(sorted, x) ==
  IF sorted = << >> THEN <<x>>
  ELSE IF sorted[Len(sorted)].currentPoints >= x.currentPoints
       THEN Append(sorted, x)
       ELSE Append(InsertByCurrentPoints(SubSeq(sorted, 1, Len(sorted) - 1), x),
                   sorted[Len(sorted)])

RECURSIVE SortByCurrentPoints(_)
SortByCurrentPoints(list) ==
  IF list = << >> THEN << >>
  ELSE InsertByCurrentPoints(SortByCurrentPoints(SubSeq(list, 1, Len(list) - 1)),
                             list[Len(list)])

\* the comparison rows of fetchComparisonData
analyticsComparison(players, selectedGame, gms, gameScores, prevGames, prevScores) ==
  LET currentGamesUpToSelected == UpToGameNumber(gms, selectedGame)
      currentScoresFiltered == ScoresIn(gameScores, GameIdsOf(currentGamesUpToSelected))
  IN SortByCurrentPoints(
       [k \in DOMAIN players |->
          LET current == StatsByPlayer(players[k], currentGamesUpToSelected,
                                       currentScoresFiltered)
              previous == StatsByPlayer(players[k], prevGames, prevScores)
          IN [playerId |-> players[k],
              currentPoints |-> current.points, previousPoints |-> previous.points,
              currentWins |-> current.wins, previousWins |-> previous.wins,
              currentLongestRoad |-> current.longestRoad,
              previousLongestRoad |-> previous.longestRoad,
              currentLargestArmy |-> current.largestArmy,
              previousLargestArmy |-> previous.largestArmy,
              difference |-> current.points - previous.points]])

\* the cumulative points of every player over the games numbered up to i
PointsUpTo(players, gms, scores, i) ==
  LET ids == GameIdsOf(UpToGameNumber(gms, i))
  IN [p \in {players[k] : k \in DOMAIN players} |->
        SumField({s \in scores : s.game_id \in ids /\ s.player_id = p}, "points")]

\* the progression rows: for (let i = 1; i <= maxGames; i++) progression.push({...})
progression(players, gms, gameScores, allPrevGames, allPrevScores) ==
  LET maxGames == Greatest(Len(gms), Len(allPrevGames))
  IN [i \in 1 .. maxGames |->
        [gameNumber |-> i,
         currentTournamentPoints |-> PointsUpTo(players, gms, gameScores, i),
         previousTournamentPoints |-> PointsUpTo(players, allPrevGames, allPrevScores, i)]]

\* fetchComparisonData, run by the effect on selectedGame, players, games, gameScores
AnalyticsCompare ==
  /\ activeTab = "analytics"
  /\ ~anLoading
  /\ LET prevTournament ==
           IF selectedTournament = NoTournament \/ anSelectedGame = 0
           THEN NoTournament
           ELSE previousTournament(ctxTournaments[1], selectedTournament)
         allPrevGames == OrderByGameNumber(GamesOf(games, prevTournament.id))
         prevGamesUpToSelected == UpToGameNumber(allPrevGames, anSelectedGame)
         prevScores == ScoresIn(game_scores, GameIdsOf(prevGamesUpToSelected))
         allPrevScores == ScoresIn(game_scores, GameIdsOf(allPrevGames))
     IN IF prevTournament = NoTournament
        THEN /\ anComparison' = << >>
             /\ anPreviousTournament' = NoTournament
             /\ anProgress' = << >>
        ELSE /\ anPreviousTournament' = prevTournament
             /\ IF Len(prevGamesUpToSelected) = 0
                THEN /\ anComparison' = << >>
                     /\ anProgress' = << >>
                ELSE /\ anComparison' =
                          analyticsComparison(PlayersByName, anSelectedGame, anGames,
                                              anGameScores, prevGamesUpToSelected, prevScores)
                     /\ anProgress' =
                          progression(PlayersByName, anGames, anGameScores, allPrevGames,
                                      allPrevScores)
  /\ anSeries' = << >>
  /\ UNCHANGED <<dbVars, clientVars, deleteVars, createVars, response, riskVars, formVars,
                 statsVars, liveVars, anLoading, anGames, anGameScores, anSelectedGame>>

\* progressData[i]?.[season][player.id] for i counted from 0: << >> when undefined
ProgressAt(progressData, i, season, playerId) ==
  IF i + 1 \in DOMAIN progressData THEN <<progressData[i + 1][season][playerId]>> ELSE << >>

\* value || 0
OrZero(value) == IF value = << >> THEN 0 ELSE value[1]

\* the data sets of the chart of one player: a number is <<n>>, null is << >>
getSinglePlayerProgressionData(playerId, players, gms, progressData, previous, selected) ==
  IF Len(progressData) = 0 \/ Len(players) = 0
       \/ ~ \E k \in DOMAIN players : players[k] = playerId
  THEN << >>
  ELSE
    LET currentGamesPlayed == Len(gms)
        previousGamesPlayed ==
          IF previous # NoTournament
          THEN Cardinality({i \in DOMAIN progressData :
                 \E p \in DOMAIN progressData[i].previousTournamentPoints :
                   progressData[i].previousTournamentPoints[p] > 0})
          ELSE 0
        maxGames ==
          Greatest(Greatest(currentGamesPlayed, previousGamesPlayed),
                   IF selected.total_games = 0 THEN DefaultTotalGames
                   ELSE selected.total_games)
        lastActualPoints ==
          OrZero(ProgressAt(progressData, currentGamesPlayed - 1,
                            "currentTournamentPoints", playerId))
        avgPointsPerGame ==
          IF currentGamesPlayed > 0
          THEN NumDiv(Num(lastActualPoints), Num(currentGamesPlayed)) ELSE Num(7)
        currentActualData ==
          [k \in 1 .. maxGames |->
             IF k - 1 < currentGamesPlayed
             THEN <<OrZero(ProgressAt(progressData, k - 1, "currentTournamentPoints",
                                      playerId))>>
             ELSE << >>]
        currentPredictedData ==
          [k \in 1 .. maxGames |->
             IF k - 1 < currentGamesPlayed
             THEN IF k = currentGamesPlayed /\ currentGamesPlayed < maxGames
                  THEN currentActualData[k] ELSE << >>
             ELSE <<MathRound(NumAdd(Num(lastActualPoints),
                                     NumMul(avgPointsPerGame,
                                            Num(k - currentGamesPlayed))))>>]
        previousData ==
          IF previous = NoTournament THEN << >>
          ELSE [k \in 1 .. maxGames |->
                  LET points == ProgressAt(progressData, k - 1,
                                           "previousTournamentPoints", playerId)
                  IN IF points # << >> /\ points[1] > 0 THEN points
                     ELSE IF k - 1 < previousGamesPlayed THEN <<0>> ELSE << >>]
    IN <<[current |-> currentActualData, predicted |-> currentPredictedData,
          previous |-> previousData]>>

\* the chart of the selected player is drawn
RenderProgression(playerId) ==
  /\ activeTab = "analytics"
  /\ ~anLoading
  /\ anSeries' =
       <<[playerId |-> playerId,
          chart |-> getSinglePlayerProgressionData(playerId, PlayersByName, anGames,
                                                   anProgress, anPreviousTournament,
                                                   selectedTournament)]>>
  /\ UNCHANGED <<dbVars, clientVars, deleteVars, createVars, response, riskVars, formVars,
                 statsVars, liveVars, anLoading, anGames, anGameScores, anSelectedGame,
                 anComparison, anPreviousTournament, anProgress>>

\* ---------------------------------------------------------- specification
\* the database after the migrations: a completed and an active tournament, a zero
\* stats row for every player; the active tournament's total_games is the target
InitTournaments(target) ==
  (1 :> [id |-> 1, name |-> <<"Catan 1.0">>, total_games |-> DefaultTotalGames,
         prize_pool |-> DefaultPrizePool, status |-> "completed", created_at |-> 1])
  @@ (2 :> [id |-> 2, name |-> <<"Catan 2.0">>, total_games |-> target,
            prize_pool |-> DefaultPrizePool, status |-> "active", created_at |-> 2])

\* no handler running, no form filled in
InitRequests ==
  /\ pc = [c \in Clients |-> "idle"]
  /\ form = [c \in Clients |-> NoForm]
  /\ gameData = [c \in Clients |-> NullId]
  /\ delPc = "idle"
  /\ delGameId = NullId
  /\ response = [op |-> "none", client |-> NullId, status |-> "none"]
  /\ ctPc = [r \in Requests |-> "idle"]
  /\ ctBody = [r \in Requests |-> NoBody]
  /\ ctTournament = [r \in Requests |-> NullId]
  /\ formScores = [c \in Clients |-> << >>]

InitDb(target) ==
  /\ tournaments = InitTournaments(target)
  /\ games = {}
  /\ game_scores = {}
  /\ tournament_player_stats = [k \in (DOMAIN tournaments) \X Players |-> ZeroStats]
  /\ player_stats = [p \in Players |-> ZeroGlobalStats]
  /\ nextGameId = 1
  /\ ctxTournaments = [c \in Clients |-> FetchTournaments(tournaments)]
  /\ InitRequests

\* the Leaderboard before its first fetch: data.players = [], data.totalGames = 0
InitLeaderboard ==
  /\ lbPlayers = << >>
  /\ lbStats = << >>
  /\ lbTotalGames = 0
  /\ lbTarget = DefaultTotalGames
  /\ lbRisk = << >>
  /\ lbCall = << >>

\* page.tsx: useState(false) for showGameForm
InitFormClosed == showGameForm = [c \in Clients |-> FALSE]

\* no tournament selected yet, Leaderboard and Analytics not mounted
InitPages ==
  /\ activeTab = "leaderboard"
  /\ selectedTournament = NoTournament
  /\ lbFetches = << >>
  /\ lbPending = FALSE
  /\ lbComparison = << >>
  /\ anLoading = TRUE
  /\ anGames = << >>
  /\ anGameScores = {}
  /\ anSelectedGame = 1
  /\ anComparison = << >>
  /\ anPreviousTournament = NoTournament
  /\ anProgress = << >>
  /\ anSeries = << >>

\* StatsPage before its first fetch
InitStatsPage ==
  /\ stPlayers = << >>
  /\ stGames = << >>
  /\ stGameScores = {}
  /\ stLoading = TRUE
  /\ stTop = << >>
  /\ stBottom = << >>

InitWith(target) ==
  InitDb(target) /\ InitLeaderboard /\ InitFormClosed /\ InitStatsPage /\ InitPages

Init == InitWith(TargetGames)

Next ==
  \/ \E scores \in Sheets, n \in GameNumbers, ok \in BOOLEAN : SubmitCount(1, scores, n, ok)
  \/ \E ok \in BOOLEAN : InsertGame(1, ok)
  \/ \E ok \in BOOLEAN : InsertScores(1, ok)
  \/ \E gid \in GameIds \cup {NullId}, pw \in Passwords, ok \in BOOLEAN :
        DeleteScores(gid, pw, ok)
  \/ \E ok \in BOOLEAN : DeleteGameRow(ok)

Spec == Init /\ [][Next]_vars

\* two scorekeepers submitting at once; no delete-game request, no failing count query
InitRace == InitWith(RaceTarget)

NextRace ==
  \/ \E c \in Clients, scores \in Sheets, n \in GameNumbers : SubmitCount(c, scores, n, TRUE)
  \/ \E c \in Clients, ok \in BOOLEAN : InsertGame(c, ok)
  \/ \E c \in Clients, ok \in BOOLEAN : InsertScores(c, ok)

SpecRace == InitRace /\ [][NextRace]_vars

\* one session of the game entry form: the dialog has been opened, the sheet is edited
\* and submitted; a successful submission closes the dialog
InitForm ==
  /\ InitDb(TargetGames)
  /\ InitLeaderboard
  /\ InitStatsPage
  /\ InitPages
  /\ showGameForm = [c \in Clients |-> c = 1]

NextForm ==
  \/ FetchPlayers(1)
  \/ \E i \in Players : IncreasePoints(1, i)
  \/ \E i \in Players : DecreasePoints(1, i)
  \/ \E i \in Players : ToggleLongestRoad(1, i)
  \/ \E i \in Players : ToggleLargestArmy(1, i)
  \/ \E n \in GameNumbers, ok \in BOOLEAN : SubmitForm(1, n, ok)
  \/ \E ok \in BOOLEAN : InsertGame(1, ok)
  \/ \E ok \in BOOLEAN : InsertScores(1, ok)

SpecForm == InitForm /\ [][NextForm]_vars

\* the Leaderboard rendering any fetched snapshot of a tournament with a positive target
InitRisk ==
  /\ InitDb(TargetGames)
  /\ InitFormClosed
  /\ InitStatsPage
  /\ InitPages
  /\ \E n \in 0 .. MaxRiskPlayers :
       /\ lbPlayers = [i \in 1 .. n |-> i]
       /\ lbStats \in [1 .. n -> RiskRows]
  /\ lbTotalGames \in RiskGamesChoices
  /\ lbTarget \in RiskTargetChoices
  /\ lbRisk = << >>
  /\ lbCall = NoCall

NextRisk ==
  \/ RenderRisk
  \/ \E playerStats \in RiskRows \cup {getPlayerStats(lbStats, NullId)},
        playerRank \in 1 .. MaxRiskPlayers : CallLoseChance(playerStats, playerRank)

SpecRisk == InitRisk /\ [][NextRisk]_vars

\* create-tournament requests, their steps interleaved; every database call succeeds
\* except the tournaments insert and the stats seeding, which may fail
NextTournament ==
  \/ \E r \in Requests, name \in NameChoices, tg \in TotalGamesChoices, pw \in Passwords :
        CreateCheck(r, name, tg, pw)
  \/ \E r \in Requests : CreateDemote(r, TRUE)
  \/ \E r \in Requests, ok \in BOOLEAN : CreateInsert(r, ok)
  \/ \E r \in Requests, ok \in BOOLEAN : CreateSeed(r, ok)

SpecTournament == Init /\ [][NextTournament]_vars


\* the stats page rendering any fetched snapshot: the roster in name order, the games
\* in game_number order, their ids ascending or descending, a score row or none for
\* every game and player
InitStats ==
  /\ InitDb(TargetGames)
  /\ InitLeaderboard
  /\ InitFormClosed
  /\ InitPages
  /\ \E n \in 0 .. MaxStatsPlayers, k \in 0 .. MaxStatsGames :
       /\ stPlayers = [i \in 1 .. n |-> i]
       /\ \E reversed \in BOOLEAN :
            stGames = [i \in 1 .. k |->
                         [id |-> IF reversed THEN k + 1 - i ELSE i, game_number |-> i]]
       /\ \E cells \in [(1 .. k) \X (1 .. n) ->
                          {<< >>} \cup {<<pts>> : pts \in StatsPointChoices}] :
            stGameScores =
              {[game_id |-> c[1], player_id |-> c[2], points |-> cells[c][1]] :
                 c \in {d \in (1 .. k) \X (1 .. n) : cells[d] # << >>}}
  /\ stLoading = TRUE
  /\ stTop = << >>
  /\ stBottom = << >>

NextStats == RenderStats

SpecStats == InitStats /\ [][NextStats]_vars

\* the sheets on which the first player alone reaches the threshold
SeasonSheets == {s \in Sheets : \A i \in DOMAIN s : s[i].points >= WinThreshold <=> i = 1}

\* a season: one scorekeeper recording games, the admin deleting games and creating a
\* tournament, the scorekeeper's tournament list refreshed at any later time
NextSeason ==
  \/ \E scores \in SeasonSheets : SubmitCount(1, scores, 1, TRUE)
  \/ \E ok \in BOOLEAN : InsertGame(1, ok)
  \/ \E ok \in BOOLEAN : InsertScores(1, ok)
  \/ \E gid \in GameIds : DeleteScores(gid, AdminPassword, TRUE)
  \/ DeleteGameRow(TRUE)
  \/ CreateCheck(1, <<"Catan 3.0">>, TargetGames, AdminPassword)
  \/ CreateDemote(1, TRUE)
  \/ \E ok \in BOOLEAN : CreateInsert(1, ok)
  \/ \E ok \in BOOLEAN : CreateSeed(1, ok)
  \/ RefreshTournaments(1)

SpecSeason == Init /\ [][NextSeason]_vars

\* ------------------------------------------------------------- properties
Quiescent == (\A c \in Clients : pc[c] = "idle") /\ delPc = "idle"

ScoresOf(gid, p) == {s \in game_scores : s.game_id = gid /\ s.player_id = p}

\* the game has exactly one score row per roster player
GameComplete(g) == \A p \in Players : Cardinality(ScoresOf(g.id, p)) = 1

AllGamesComplete == \A g \in games : GameComplete(g)

RECURSIVE SumPoints(_)
SumPoints(rows) ==
  IF rows = {} THEN 0
  ELSE LET r == CHOOSE x \in rows : TRUE IN r.points + SumPoints(rows \ {r})

\* C1: starting from the migrated database, recording one game and then deleting it
\* through delete-game leaves every tournament_player_stats row equal to its value
\* before the game was recorded (all zero)
C1_RoundTrip ==
  (nextGameId = 2 /\ games = {} /\ game_scores = {} /\ Quiescent)
    => \A k \in DOMAIN tournament_player_stats : tournament_player_stats[k] = ZeroStats

\* C4: in every game persisted with its score rows exactly one player has points >= 10
\* and winner_id is that player
C4_UniqueWinner ==
  \A g \in games :
    GameComplete(g) =>
      LET reached == {s \in game_scores : s.game_id = g.id /\ s.points >= WinThreshold}
      IN /\ Cardinality(reached) = 1
         /\ \A s \in reached : s.player_id = g.winner_id

\* C5: when a submission ended in an error, no game row of that submission remains
C5_AllOrNothing ==
  \A c \in Clients :
    response = Toast(c, "Failed to add game") => ~ \E g \in games : g.id = gameData[c]

\* C6: with no request in flight and every game holding its score rows, each stats
\* row's wins is the number of game rows of the tournament won by the player
C6_WinsMatchGames ==
  (Quiescent /\ AllGamesComplete) =>
    \A k \in DOMAIN tournament_player_stats :
      tournament_player_stats[k].wins =
        Cardinality({g \in GamesOf(games, k[1]) : g.winner_id = k[2]})

\* C7: in every state each stats row's total_points is the sum of points of the
\* player's score rows whose game belongs to the tournament
C7_PointsConserved ==
  \A k \in DOMAIN tournament_player_stats :
    tournament_player_stats[k].total_points =
      SumPoints({s \in game_scores :
                   s.player_id = k[2] /\ GameTournament(games, s.game_id) = k[1]})

\* a delete-game request has succeeded, a submission has failed at the score insert
\* and a recorded game is still counted
C7_Witness ==
  /\ response = Json("ok")
  /\ \E g \in games : ~ GameComplete(g)
  /\ \E k \in DOMAIN tournament_player_stats :
       tournament_player_stats[k].total_points >= WinThreshold

\* only record-game has acted: no game row was ever deleted, every game holds its scores
RecordOnly ==
  /\ Quiescent
  /\ Cardinality(games) = nextGameId - 1
  /\ AllGamesComplete
  /\ \A g, h \in games : g.game_number = h.game_number => g = h

\* length of the run of games won by p that ends at the highest game_number of gms
RECURSIVE RunEndingAtLast(_, _)
RunEndingAtLast(gms, p) ==
  IF gms = {} THEN 0
  ELSE LET last == CHOOSE g \in gms : \A h \in gms : h.game_number <= g.game_number
       IN IF last.winner_id = p THEN 1 + RunEndingAtLast(gms \ {last}, p) ELSE 0

RECURSIVE MaxOf(_)
MaxOf(S) ==
  IF S = {} THEN 0
  ELSE LET x == CHOOSE y \in S : TRUE IN Greatest(x, MaxOf(S \ {x}))

BestRun(gms, p) ==
  MaxOf({RunEndingAtLast({h \in gms : h.game_number <= g.game_number}, p) : g \in gms})

\* C8: after record-game operations in any game-number order, win_streak is the run of
\* wins ending at the highest game_number and best_win_streak the longest run in
\* ascending game_number order
C8_StreakByGameNumber ==
  RecordOnly =>
    \A k \in DOMAIN tournament_player_stats :
      /\ tournament_player_stats[k].win_streak = RunEndingAtLast(GamesOf(games, k[1]), k[2])
      /\ tournament_player_stats[k].best_win_streak = BestRun(GamesOf(games, k[1]), k[2])

ActiveIds == {i \in DOMAIN tournaments : tournaments[i].status = "active"}

\* C2: at most one tournament is active in every state, and when a create-tournament
\* request has returned success the tournament it created is the only active one
C2_OneActive ==
  [][/\ Cardinality(ActiveIds') <= 1
     /\ \A r \in Requests :
          (ctPc[r] = "inserted" /\ response' = TournamentJson(r, "200"))
            => ActiveIds' = {ctTournament[r]}]_vars

\* C3: no tournament holds more game rows than its total_games
C3_CountWithinTarget ==
  \A t \in DOMAIN tournaments :
    Cardinality(GamesOf(games, t)) <= tournaments[t].total_games

\* ------------------------------------------------------ lose chance properties
Rendered == lbRisk # << >>

RankOf(p) ==
  LET sorted == sortedPlayers(lbPlayers, lbStats)
  IN CHOOSE i \in DOMAIN sorted : sorted[i].id = p

\* l is last: no player has fewer points, and none with the same points has fewer wins
LastPlace(l) ==
  \A q \in DOMAIN lbStats :
    \/ lbStats[l].total_points < lbStats[q].total_points
    \/ /\ lbStats[l].total_points = lbStats[q].total_points
       /\ lbStats[l].wins <= lbStats[q].wins

\* C9: once games_played >= target, with at least one player, exactly one player is
\* shown 100 - a player with the lowest total_points and, among those, the fewest
\* wins - and every other player is shown 0
C9_TerminalRisk ==
  (Rendered /\ lbTotalGames >= lbTarget /\ Len(lbPlayers) >= 1) =>
    \E l \in DOMAIN lbRisk :
      /\ lbRisk[l] = 100
      /\ \A q \in DOMAIN lbRisk \ {l} : lbRisk[q] = 0
      /\ LastPlace(l)

\* the target is reached; two players tie on the lowest points, the one earlier in the
\* roster has fewer wins and is shown 100; a player 5 points above another is shown 0
C9_Witness ==
  /\ Rendered
  /\ lbTotalGames >= lbTarget
  /\ \E p, q, r, t \in DOMAIN lbRisk :
       /\ p < q
       /\ lbStats[p].total_points = lbStats[q].total_points
       /\ lbStats[p].wins < lbStats[q].wins
       /\ lbRisk[p] = 100
       /\ lbRisk[q] = 0
       /\ lbStats[t].total_points = lbStats[r].total_points + 5
       /\ lbRisk[t] = 0

\* exact fractions <<numerator, denominator>>, denominator > 0
RECURSIVE Gcd(_, _)
Gcd(a, b) == IF b = 0 THEN a ELSE Gcd(b, a % b)

Frac(n, d) ==
  LET g == Gcd(IF n < 0 THEN -n ELSE n, d)
  IN <<n \div g, d \div g>>

QAdd(a, b) == Frac(a[1] * b[2] + b[1] * a[2], a[2] * b[2])
QSub(a, b) == Frac(a[1] * b[2] - b[1] * a[2], a[2] * b[2])
QMul(a, b) == Frac(a[1] * b[1], a[2] * b[2])
QLe(a, b) == a[1] * b[2] <= b[1] * a[2]
QMin(a, b) == IF QLe(a, b) THEN a ELSE b
QMax(a, b) == IF QLe(a, b) THEN b ELSE a
\* the nearest integer, a half rounding up
QRound(a) == (2 * a[1] + a[2]) \div (2 * a[2])

\* round(min(90, max(5, equal + (base - equal) * confidence)))
LoseChanceFormula(gap, rank, n, played, target) ==
  LET remaining == target - played
      swing == QMax(<<7 * remaining, 2>>, <<1, 1>>)
      safety == QMin(Frac(gap * swing[2], swing[1]), <<1, 1>>)
      base == QAdd(QSub(<<65, 1>>, QMul(<<57, 1>>, safety)),
                   Frac(8 * (rank - 1), IF n - 1 > 1 THEN n - 1 ELSE 1))
      confidence == QMin(Frac(3 * played, 2 * target), <<1, 1>>)
      equal == Frac(100, n)
  IN QRound(QMin(<<90, 1>>, QMax(<<5, 1>>, QAdd(equal, QMul(QSub(base, equal), confidence)))))

LowestPoints == CHOOSE m \in {lbStats[q].total_points : q \in DOMAIN lbStats} :
                  \A q \in DOMAIN lbStats : m <= lbStats[q].total_points

\* C10: with 0 < games_played < target every player is shown exactly
\* round(min(90, max(5, equal + (base - equal) * confidence))), and the last of 4 players
\* (rank 4, gap 0) after 5 of 20 games is shown 43
C10_ExactFormula ==
  (Rendered /\ 0 < lbTotalGames /\ lbTotalGames < lbTarget) =>
    \A p \in DOMAIN lbRisk :
      /\ lbRisk[p] = LoseChanceFormula(lbStats[p].total_points - LowestPoints, RankOf(p),
                                       Len(lbPlayers), lbTotalGames, lbTarget)
      /\ (/\ Len(lbPlayers) = 4 /\ lbTarget = 20 /\ lbTotalGames = 5
          /\ RankOf(p) = 4 /\ lbStats[p].total_points = LowestPoints)
           => lbRisk[p] = 43

MidTournament == Rendered /\ 0 < lbTotalGames /\ lbTotalGames < lbTarget

\* C11: with 0 < games_played < target every player is shown an integer in 5 .. 90
C11_RiskWithinClamp ==
  MidTournament => \A p \in DOMAIN lbRisk : lbRisk[p] \in 5 .. 90

\* a single player after 1 of 20 games: 100 - 35 * 0.075 is above 90 and is cut to 90
C11_Witness ==
  /\ MidTournament
  /\ Len(lbPlayers) = 1
  /\ lbTotalGames = 1
  /\ lbRisk[1] = 90

\* C12: with games_played = 0 every one of the N players is shown round(100 / N),
\* whatever the points and ranks (25 for N = 4), and with no players the function
\* still evaluates to a number
C12_EqualStart ==
  /\ (Rendered /\ lbTotalGames = 0) =>
       \A p \in DOMAIN lbRisk :
         /\ lbRisk[p] = QRound(Frac(100, Len(lbPlayers)))
         /\ Len(lbPlayers) = 4 => lbRisk[p] = 25
  /\ (lbCall # NoCall /\ lbTotalGames = 0 /\ lbPlayers = << >>) => lbCall.result \in 0 .. 100

\* four players with different points and no game played: all are shown 25
C12_Witness ==
  /\ Rendered
  /\ lbTotalGames = 0
  /\ Len(lbPlayers) = 4
  /\ lbStats[1].total_points # lbStats[4].total_points
  /\ \A p \in DOMAIN lbRisk : lbRisk[p] = 25

\* C30: a player placed before another in the leaderboard order (total_points
\* descending, then wins descending) is never shown a greater lose chance; the last
\* place is shown the greatest
C30_RiskMonotoneInRank ==
  Rendered =>
    \A p, q \in DOMAIN lbRisk : RankOf(p) < RankOf(q) => lbRisk[p] <= lbRisk[q]

\* mid-tournament, two players level on points and wins: the one placed second is shown
\* strictly more, by the position penalty alone
C30_Witness ==
  /\ MidTournament
  /\ \E p, q \in DOMAIN lbRisk :
       /\ RankOf(p) < RankOf(q)
       /\ lbStats[p] = lbStats[q]
       /\ lbRisk[p] < lbRisk[q]
       /\ \A r \in DOMAIN lbRisk : lbRisk[r] <= lbRisk[q]

\* ------------------------------------------------ create-tournament properties
RequestsIdle == \A r \in Requests : ctPc[r] = "idle"

ErrorResponse == response.op = "tournaments" /\ response.status # "200"

\* C13: a create-tournament request that answers with an error leaves the tournaments
\* table as it was: while no request has added a tournament and the last request has
\* answered with an error, the table is the initial one and Catan 2.0 is still active
C13_ErrorLeavesTable ==
  (RequestsIdle /\ ErrorResponse /\ DOMAIN tournaments = DOMAIN InitTournaments(TargetGames))
    => tournaments = InitTournaments(TargetGames)

\* C14: every tournament has a non-empty stored name and no two tournaments have the
\* same stored name
C14_NamesUnique ==
  \A i \in DOMAIN tournaments :
    /\ tournaments[i].name # << >>
    /\ \A j \in DOMAIN tournaments : tournaments[j].name = tournaments[i].name => j = i

\* C15: when a create-tournament request has answered with success, every player has
\* a tournament_player_stats row for the new tournament (one at most, by the unique
\* key) and all of its counters are 0
C15_SeededOnSuccess ==
  \A r \in Requests :
    (response = TournamentJson(r, "200") /\ ctTournament[r] # NullId) =>
      \A p \in Players :
        /\ <<ctTournament[r], p>> \in DOMAIN tournament_player_stats
        /\ tournament_player_stats[<<ctTournament[r], p>>] = ZeroStats

\* ------------------------------------------------------ delete-game properties
\* C16: a delete request without gameId, without password or with a password other
\* than the admin password deletes no game row and no score row and answers with an
\* error; a step that removes a row belongs to a request whose password check passed
C16_AdminGated ==
  [][/\ \A gid \in GameIds \cup {NullId}, pw \in Passwords, ok \in BOOLEAN :
          (DeleteScores(gid, pw, ok) /\ (gid = NullId \/ pw = "" \/ pw # AdminPassword))
            => /\ games' = games
               /\ game_scores' = game_scores
               /\ tournament_player_stats' = tournament_player_stats
               /\ response' \in {Json("400"), Json("401")}
     /\ (~ (games \subseteq games') \/ ~ (game_scores \subseteq game_scores'))
          => \/ delPc = "scoresDeleted"
             \/ \E gid \in GameIds, ok \in BOOLEAN : DeleteScores(gid, AdminPassword, ok)]_vars

\* a request with a wrong password has been answered 401 while a recorded game and its
\* score rows are in the database
C16_Witness ==
  /\ response = Json("401")
  /\ games # {}
  /\ \A g \in games : GameComplete(g)

\* ------------------------------------------------------ record-game properties
NoWinnerToast == Toast(1, "Someone must reach 10 points to win!")

\* C17: a submission in which no player has 10 points ends at the check: it shows the
\* error, starts no insert and changes no game, score or stats row; a submission that
\* goes on to its inserts has a player with at least 10 points
C17_NoWinnerRejected ==
  [][/\ \A scores \in Sheets, n \in GameNumbers, ok \in BOOLEAN :
          (SubmitCount(1, scores, n, ok) /\ \A i \in DOMAIN scores : scores[i].points < 10)
            => /\ response' = NoWinnerToast
               /\ pc' = pc
               /\ UNCHANGED <<games, game_scores, tournament_player_stats, player_stats>>
     /\ pc'[1] # "idle" => \E i \in DOMAIN form'[1].scores : form'[1].scores[i].points >= 10]_vars

\* a sheet without a winner has been rejected after a game had been recorded
C17_Witness ==
  /\ response = NoWinnerToast
  /\ games # {}
  /\ pc[1] = "idle"

\* ------------------------------------------------------ game entry form properties
Holders(scores, flag) == {i \in DOMAIN scores : scores[i][flag]}

PointsOf(scores) == [i \in DOMAIN scores |-> scores[i].points]

FlagOf(scores, flag) == [i \in DOMAIN scores |-> scores[i][flag]]

\* C18: after any sequence of form actions at most one player of the sheet has
\* longestRoad and at most one has largestArmy; a toggle of one flag changes neither
\* the other flag nor any points; every persisted game has at most one score row with
\* longest_road and at most one with largest_army
C18_OneHolderPerFlag ==
  [][/\ Cardinality(Holders(formScores'[1], "longestRoad")) <= 1
     /\ Cardinality(Holders(formScores'[1], "largestArmy")) <= 1
     /\ \A i \in Players :
          /\ ToggleLongestRoad(1, i) =>
               /\ FlagOf(formScores'[1], "largestArmy") = FlagOf(formScores[1], "largestArmy")
               /\ PointsOf(formScores'[1]) = PointsOf(formScores[1])
          /\ ToggleLargestArmy(1, i) =>
               /\ FlagOf(formScores'[1], "longestRoad") = FlagOf(formScores[1], "longestRoad")
               /\ PointsOf(formScores'[1]) = PointsOf(formScores[1])
     /\ \A g \in games' :
          /\ Cardinality({r \in game_scores' : r.game_id = g.id /\ r.longest_road}) <= 1
          /\ Cardinality({r \in game_scores' : r.game_id = g.id /\ r.largest_army}) <= 1]_vars

\* a game has been persisted with the longest road held by player 2 and the largest
\* army by player 1, and the sheet has been reset
C18_Witness ==
  /\ \E r \in game_scores : r.player_id = 2 /\ r.longest_road /\ ~ r.largest_army
  /\ \E r \in game_scores : r.player_id = 1 /\ r.largest_army /\ ~ r.longest_road
  /\ formScores[1] = LoadedScores
  /\ ~ showGameForm[1]

\* C19: no two game rows of one tournament have the same game_number
C19_UniqueGameNumber ==
  \A g, h \in games :
    (g.tournament_id = h.tournament_id /\ g.game_number = h.game_number) => g = h

\* ------------------------------------------------------ stats page properties
\* the points a player has scored in the games up to the one at position gameIndex
CumulativePoints(playerId, gameIndex) ==
  SumPoints({gs \in stGameScores :
               /\ gs.player_id = playerId
               /\ \E i \in 1 .. gameIndex : stGames[i].id = gs.game_id})

RosterIds == {stPlayers[k] : k \in DOMAIN stPlayers}

ValueOf(table, playerId) ==
  LET at == {k \in DOMAIN table : table[k].player = playerId}
  IN IF at = {} THEN 0 ELSE table[CHOOSE k \in at : TRUE].value

RECURSIVE SumValues(_)
SumValues(table) ==
  IF table = << >> THEN 0 ELSE Head(table).value + SumValues(Tail(table))

\* the table credits every game to one player who is extreme in that game
CreditsOnePerGame(table, Extreme(_, _)) ==
  \E credited \in [DOMAIN stGames -> RosterIds] :
    /\ \A i \in DOMAIN stGames : Extreme(credited[i], i)
    /\ \A p \in RosterIds :
         ValueOf(table, p) = Cardinality({i \in DOMAIN stGames : credited[i] = p})

IsTop(playerId, gameIndex) ==
  \A q \in RosterIds : CumulativePoints(q, gameIndex) <= CumulativePoints(playerId, gameIndex)

IsBottom(playerId, gameIndex) ==
  \A q \in RosterIds : CumulativePoints(q, gameIndex) >= CumulativePoints(playerId, gameIndex)

\* C20: for a non-empty roster each game, in game_number order, is credited in the
\* time-at-top table to exactly one player whose cumulative points through that game
\* are maximal, in the time-at-bottom table to exactly one whose cumulative points
\* are minimal; the counts of each table sum to the number of games
C20_OneCreditPerGame ==
  (~stLoading /\ stPlayers # << >> /\ stGames # << >>) =>
    /\ CreditsOnePerGame(stTop, IsTop)
    /\ CreditsOnePerGame(stBottom, IsBottom)
    /\ SumValues(stTop) = Len(stGames)
    /\ SumValues(stBottom) = Len(stGames)

\* two players tied at the top after the first game, one of them without a row in the
\* second: each has one game at the top, the first of the roster both at the bottom
C20_Witness ==
  /\ ~stLoading
  /\ Len(stPlayers) = 2
  /\ Len(stGames) = 2
  /\ Cardinality(stGameScores) = 3
  /\ CumulativePoints(1, 1) = CumulativePoints(2, 1)
  /\ ValueOf(stTop, 1) = 1
  /\ ValueOf(stTop, 2) = 1
  /\ ValueOf(stBottom, 1) = 2


\* the first player of the roster among those extreme at a checkpoint
FirstInRoster(Extreme(_, _), gameIndex) ==
  stPlayers[CHOOSE k \in DOMAIN stPlayers :
              /\ Extreme(stPlayers[k], gameIndex)
              /\ \A j \in 1 .. k - 1 : ~Extreme(stPlayers[j], gameIndex)]

CreditsFirstTied(table, Extreme(_, _)) ==
  \A p \in RosterIds :
    ValueOf(table, p) =
      Cardinality({i \in DOMAIN stGames : FirstInRoster(Extreme, i) = p})

\* C21: when several players share the maximal (minimal) cumulative total at a
\* checkpoint, the first of them in roster order is credited, so the tables are
\* determined by the players, games and scores
C21_FirstTiedCredited ==
  (~stLoading /\ stPlayers # << >> /\ stGames # << >>) =>
    /\ CreditsFirstTied(stTop, IsTop)
    /\ CreditsFirstTied(stBottom, IsBottom)

\* the second player leads after the first game, both are level after the second: the
\* second checkpoint goes to the first player in both tables
C21_Witness ==
  /\ ~stLoading
  /\ Len(stPlayers) = 2
  /\ Len(stGames) = 2
  /\ CumulativePoints(1, 1) < CumulativePoints(2, 1)
  /\ CumulativePoints(1, 2) = CumulativePoints(2, 2)
  /\ ValueOf(stTop, 1) = 1
  /\ ValueOf(stBottom, 1) = 2


\* ------------------------------------------------------ write order properties
ScoresReferenceGames == \A s \in game_scores : \E g \in games : g.id = s.game_id

StatsRowInRange(row) ==
  /\ row.best_win_streak >= row.win_streak
  /\ row.win_streak >= 0
  /\ row.total_games >= 0
  /\ row.wins >= 0
  /\ row.total_points >= 0
  /\ row.longest_road_count >= 0
  /\ row.largest_army_count >= 0

C25_InsertIntoActive ==
  [][\A g \in games' \ games : tournaments[g.tournament_id].status = "active"]_vars

\* the score rows a step inserts or deletes
RowsWritten == (game_scores' \ game_scores) \cup (game_scores \ game_scores')

\* C26: a step changes a tournament_player_stats row only of the tournament of the
\* game whose score rows it inserts or deletes, and removes no row; creating a
\* tournament changes no row of an existing tournament
C26_IndependentStats ==
  [][\A k \in DOMAIN tournament_player_stats :
       /\ k \in DOMAIN tournament_player_stats'
       /\ tournament_player_stats'[k] # tournament_player_stats[k] =>
            \E s \in RowsWritten : GameTournament(games, s.game_id) = k[1]]_vars

\* a game was recorded in tournament 2, then tournament 3 was created and seeded and a
\* game recorded in it: both tournaments hold a counted game of player 1
C26_Witness ==
  /\ <<3, 1>> \in DOMAIN tournament_player_stats
  /\ tournament_player_stats[<<3, 1>>].total_games = 1
  /\ tournament_player_stats[<<2, 1>>].total_games = 1
  /\ tournament_player_stats[<<1, 1>>].total_games = 0


\* ------------------------------------------------- specification: season comparison
\* the tournaments in the order of their creation: the names do not follow it
CreatedOrders == {<<1, 2, 3>>, <<2, 1, 3>>}

SnapshotNames == <<(<<"Catan 1.0">>), (<<"Catan 2.0">>), (<<"Catan 3.0">>)>>

\* the tournaments table after two POST /api/tournaments/create: the row created last
\* is the active one
SnapshotTournaments(created) ==
  [t \in DOMAIN created |->
     [id |-> t, name |-> SnapshotNames[t], total_games |-> TargetGames,
      prize_pool |-> DefaultPrizePool,
      status |-> IF created[t] = Len(created) THEN "active" ELSE "completed",
      created_at |-> created[t]]]

\* a tournament selected before its row left the tournaments table
RemovedTournament ==
  [id |-> MaxTournaments, name |-> <<"Catan 0.0">>, total_games |-> TargetGames,
   prize_pool |-> DefaultPrizePool, status |-> "completed", created_at |-> 0]

\* game n of tournament t as handleSubmit wrote it: the winners alternate
SnapshotGame(t, n) ==
  [id |-> (t - 1) * Cardinality(SeasonGameNumbers) + n, game_number |-> n,
   winner_id |-> 1 + ((t + n) % 2), tournament_id |-> t]

SnapshotScores(g) ==
  ScoreRows(g.id,
            [p \in Players |->
               [playerId |-> p,
                points |-> IF p = g.winner_id THEN WinThreshold
                           ELSE g.game_number + g.tournament_id,
                longestRoad |-> (p = g.winner_id),
                largestArmy |-> (p # g.winner_id /\ g.game_number % 2 = 1)]])

SnapshotGames(numbers) ==
  {SnapshotGame(t, n) : t \in DOMAIN numbers, n \in SeasonGameNumbers} \cap
  UNION {{SnapshotGame(t, n) : n \in numbers[t]} : t \in DOMAIN numbers}

\* the stats rows after the games were recorded one after the other, by id
RECURSIVE RecordedStats(_, _, _)
RecordedStats(tps, gms, list) ==
  IF list = << >> THEN tps
  ELSE RecordedStats(InsertRowsTournament(tps, gms, SnapshotScores(Head(list))), gms,
                     Tail(list))

RECURSIVE RecordedGlobalStats(_, _, _)
RecordedGlobalStats(ps, gms, list) ==
  IF list = << >> THEN ps
  ELSE RecordedGlobalStats(InsertRowsGlobal(ps, gms, SnapshotScores(Head(list))), gms,
                           Tail(list))

RECURSIVE OrderById(_)
OrderById(rows) ==
  IF rows = {} THEN << >>
  ELSE LET r == CHOOSE x \in rows : \A y \in rows : x.id <= y.id
       IN <<r>> \o OrderById(rows \ {r})

\* a database in which every season has up to MaxSeasonGames games, and one of the
\* pages mounted for a selected tournament: the completed seasons are numbered with or
\* without gaps (games were deleted, numbers were typed in), the season in progress
\* with the numbers the form proposes
InitCompare ==
  /\ \E created \in CreatedOrders : tournaments = SnapshotTournaments(created)
  /\ \E numbers \in [DOMAIN tournaments -> SUBSET SeasonGameNumbers] :
       /\ \A t \in DOMAIN numbers :
            /\ Cardinality(numbers[t]) <= MaxSeasonGames
            /\ tournaments[t].status = "active" =>
                 numbers[t] = 1 .. Cardinality(numbers[t])
       /\ games = SnapshotGames(numbers)
  /\ game_scores = UNION {SnapshotScores(g) : g \in games}
  /\ tournament_player_stats =
       RecordedStats([k \in (DOMAIN tournaments) \X Players |-> ZeroStats], games,
                     OrderById(games))
  /\ player_stats =
       RecordedGlobalStats([p \in Players |-> ZeroGlobalStats], games, OrderById(games))
  /\ nextGameId = MaxGames + 1
  /\ ctxTournaments = [c \in Clients |-> FetchTournaments(tournaments)]
  /\ InitRequests
  /\ InitLeaderboard
  /\ InitFormClosed
  /\ InitStatsPage
  /\ activeTab \in {"leaderboard", "analytics"}
  /\ selectedTournament \in {tournaments[t] : t \in DOMAIN tournaments} \cup {RemovedTournament}
  /\ lbFetches = IF activeTab = "leaderboard" THEN <<NewFetch(selectedTournament)>> ELSE << >>
  /\ lbPending = FALSE
  /\ lbComparison = << >>
  /\ anLoading = TRUE
  /\ anGames = << >>
  /\ anGameScores = {}
  /\ anSelectedGame = 1
  /\ anComparison = << >>
  /\ anPreviousTournament = NoTournament
  /\ anProgress = << >>
  /\ anSeries = << >>

NextCompare ==
  \/ \E i \in 1 .. MaxFetches : FetchRead(i)
  \/ \E i \in 1 .. MaxFetches : FetchSetData(i)
  \/ \E i \in 1 .. MaxFetches : FetchCompare(i)
  \/ FetchAnalyticsData
  \/ \E step \in {-1, 1} : SelectGame(step)
  \/ AnalyticsCompare
  \/ \E p \in Players : RenderProgression(p)

SpecCompare == InitCompare /\ [][NextCompare]_vars


\* ------------------------------------------------- properties: season comparison
\* the tournament created last before the selected one, among those of the list
ExpectedPrevious(list, selected) ==
  LET listed == {list[i] : i \in DOMAIN list}
      earlier == {t \in listed : t.created_at < selected.created_at}
  IN IF (\A t \in listed : t.id # selected.id) \/ earlier = {} THEN NoTournament
     ELSE CHOOSE t \in earlier : \A u \in earlier : u.created_at <= t.created_at

\* the Leaderboard is mounted, no notification waits and no fetch is in flight
LeaderboardSettled ==
  /\ activeTab = "leaderboard"
  /\ selectedTournament # NoTournament
  /\ lbFetches = << >>
  /\ ~lbPending

\* C22: the season a page compares with is the tournament created last before the
\* selected one, whatever the names are; when the selected tournament is the earliest
\* of the list or is not in the list, the comparison is empty
C22_PreviousByCreation ==
  /\ [](LET expected == ExpectedPrevious(ctxTournaments[1], selectedTournament)
        IN /\ LeaderboardSettled =>
                lbComparison =
                  IF expected = NoTournament \/ lbTotalGames = 0 THEN << >>
                  ELSE leaderboardComparison(lbPlayers, lbTotalGames, expected,
                                             selectedTournament, games, game_scores,
                                             tournament_player_stats)
           /\ anPreviousTournament \in {NoTournament, expected}
           /\ expected = NoTournament => anComparison = << >> /\ anProgress = << >>
           /\ anComparison # << >> => anPreviousTournament = expected)
  /\ [][AnalyticsCompare =>
          anPreviousTournament' = ExpectedPrevious(ctxTournaments[1], selectedTournament)]_vars

\* "Catan 1.0" was created after "Catan 2.0" and is compared with it
C22_Witness ==
  /\ selectedTournament.name = <<"Catan 1.0">>
  /\ ExpectedPrevious(ctxTournaments[1], selectedTournament) # NoTournament
  /\ ExpectedPrevious(ctxTournaments[1], selectedTournament).name = <<"Catan 2.0">>
  /\ LeaderboardSettled
  /\ lbComparison # << >>


\* the first min(n, L) games of a season in ascending order of game_number
FirstGames(gms, tid, n) == Limit(OrderByGameNumber(GamesOf(gms, tid)), n)

\* what player p made in the first n games of a season
FirstGamesStats(gms, scores, tid, n, p) ==
  LET mine == {s \in ScoresIn(scores, GameIdsOf(FirstGames(gms, tid, n))) : s.player_id = p}
  IN [points |-> SumField(mine, "points"),
      longestRoad |-> Cardinality({s \in mine : s.longest_road}),
      largestArmy |-> Cardinality({s \in mine : s.largest_army})]

\* C23: the previous points (and achievement counts) of a comparison row are those of
\* the first min(N, L) games of the previous season by game number, N being the games
\* played in the Leaderboard and the selected game in Analytics
C23_FirstGamesOfPrevious ==
  [][LET expected == ExpectedPrevious(ctxTournaments[1], selectedTournament)
     IN /\ LeaderboardSettled' =>
             \A k \in DOMAIN lbComparison' :
               lbComparison'[k].previousPoints =
                 FirstGamesStats(games, game_scores, expected.id, lbTotalGames',
                                 lbComparison'[k].playerId).points
        /\ AnalyticsCompare =>
             \A k \in DOMAIN anComparison' :
               LET row == anComparison'[k]
                   first == FirstGamesStats(games, game_scores, expected.id,
                                            anSelectedGame, row.playerId)
               IN /\ row.previousPoints = first.points
                  /\ row.previousLongestRoad = first.longestRoad
                  /\ row.previousLargestArmy = first.largestArmy]_vars


\* series[i], null past the end of the series
ValueAt(series, i) == IF i \in DOMAIN series THEN series[i] ELSE << >>

\* a season's value at checkpoint i: the points through its i-th game, null when the
\* season has fewer than i games
CheckpointValue(gms, scores, tid, i, p) ==
  IF i <= Cardinality(GamesOf(gms, tid))
  THEN <<FirstGamesStats(gms, scores, tid, i, p).points>>
  ELSE << >>

\* C24: in the chart drawn for a player, at every checkpoint up to the longer of the
\* two seasons, the current and the previous series hold the cumulative points through
\* the season's i-th game, and null where the season has not got that far
C24_ProgressionSeries ==
  (anSeries # << >> /\ anSeries[1].chart # << >>) =>
    LET p == anSeries[1].playerId
        chart == anSeries[1].chart[1]
        current == selectedTournament.id
        previous == anPreviousTournament.id
        longer == Greatest(Cardinality(GamesOf(games, current)),
                           Cardinality(GamesOf(games, previous)))
    IN \A i \in 1 .. longer :
         /\ ValueAt(chart.current, i) = CheckpointValue(games, game_scores, current, i, p)
         /\ ValueAt(chart.previous, i) = CheckpointValue(games, game_scores, previous, i, p)


\* ------------------------------------------------- specification: live Leaderboard
\* games are recorded and deleted while the Leaderboard is mounted; the provider's
\* auto-selection and the selector set the selected tournament
NextLive ==
  \/ \E scores \in SeasonSheets : SubmitCount(1, scores, 1, TRUE)
  \/ InsertGame(1, TRUE)
  \/ InsertScores(1, TRUE)
  \/ \E gid \in GameIds : DeleteScores(gid, AdminPassword, TRUE)
  \/ DeleteGameRow(TRUE)
  \/ \E k \in DOMAIN ctxTournaments[1] : SelectTournament(ctxTournaments[1][k])
  \/ FetchData
  \/ \E i \in 1 .. MaxFetches : FetchRead(i)
  \/ \E i \in 1 .. MaxFetches : FetchSetData(i)
  \/ \E i \in 1 .. MaxFetches : FetchCompare(i)

SpecLive == Init /\ [][NextLive]_vars

\* C28: with no notification pending and no fetch in flight, the Leaderboard shows the
\* stats rows and the game count the database holds for the selected tournament
C28_SettledShowsCurrent ==
  LeaderboardSettled =>
    /\ lbStats = StatsOf(tournament_player_stats, selectedTournament.id)
    /\ lbTotalGames = Cardinality(GamesOf(games, selectedTournament.id))

====
